---------------------------- MODULE Spec2Model ----------------------------
(***************************************************************************)
(* Build-recommendation request pipeline of the LoL build companion:       *)
(*   - the client's retry/timeout HTTP helper  fetchWithRetry              *)
(*     (src/src/services/openaiApi.ts, src/src/types.ts),                  *)
(*   - the client's generateBuildRecommendation,                           *)
(*   - the server's POST /api/build-recommendation handler (src/server.js) *)
(*     with its cache, its completion orchestrator and its error mapping.  *)
(*                                                                         *)
(* Three specifications share the module:                                  *)
(*   SpecRetry   fetchWithRetry called with any (retries, backoff),        *)
(*   SpecClient  generateBuildRecommendation driving fetchWithRetry,       *)
(*   SpecServer  the server handling concurrent requests.                  *)
(***************************************************************************)
EXTENDS Integers, Sequences, FiniteSets, TLC

(***************************************************************************)
(* Bounds of the model.                                                    *)
(***************************************************************************)
\* largest `retries` argument fetchWithRetry is called with in SpecRetry
MaxRetries == 4
\* largest roster generateBuildRecommendation is called with in SpecClient
MaxRoster == 2
\* requests the server receives in SpecServer
MaxReq == 2
\* clock ticks (of half a TTL each) that pass in SpecServer
MaxTicks == 2
\* champions selected in a run of SpecApp
MaxPicks == 3
\* champions selected in a run of SpecTeam: one more than fills a team
MaxTeamPicks == 6

(***************************************************************************)
(* Program constants.                                                      *)
(***************************************************************************)
\* fetchWithRetry(url, options, retries = 3, backoff = 300)
DefaultRetries == 3
DefaultBackoff == 300
\* the first variant posts with fetchWithRetry(..., 2, 500)
PostRetries == 2
PostBackoff == 500
\* new NodeCache({ stdTTL: 3600, checkperiod: 120 }), in seconds
StdTTL == 3600
\* pRetry(..., { retries: 3, minTimeout: 1000, maxTimeout: 5000 })
ServerRetries == 3
MinTimeout == 1000
MaxTimeout == 5000
\* if (team.allies.length < 5), if (team.enemies.length < 5)
TeamLimit == 5

(***************************************************************************)
(* JavaScript values.                                                      *)
(***************************************************************************)
\* the value a missing property reads as
Undefined == "undefined"

\* JavaScript truthiness of a string-or-undefined value
Truthy(v) == v \notin {Undefined, ""}

\* a || b
OrElse(a, b) == IF Truthy(a) THEN a ELSE b

(***************************************************************************)
(* A text is a sequence of tokens.  JSONParse reads a flat object          *)
(*   { k1 : v1 , k2 : v2 ... }                                             *)
(* and fails (throws SyntaxError) on anything else.                        *)
(***************************************************************************)
JSONWellFormed(t) ==
    /\ Len(t) >= 2
    /\ t[1] = "{"
    /\ t[Len(t)] = "}"
    /\ \/ Len(t) = 2
       \/ /\ (Len(t) - 2) % 4 = 3
          /\ \A i \in 2..(Len(t) - 1) :
                /\ ((i - 2) % 4 = 1) => t[i] = ":"
                /\ ((i - 2) % 4 = 3) => t[i] = ","
                /\ ((i - 2) % 4 \in {0, 2}) => t[i] \notin {"{", "}", ":", ","}

JSONKeys(t) == { t[i] : i \in { j \in 2..(Len(t) - 1) : (j - 2) % 4 = 0 } }

JSONValueOf(t, k) ==
    LET i == CHOOSE j \in 2..(Len(t) - 1) : (j - 2) % 4 = 0 /\ t[j] = k
    IN  t[i + 2]

\* mutant: a parser that accepts every text
JSONParseLenient(t) == [ok |-> TRUE, value |-> <<>>]

\* [ok |-> FALSE] stands for the SyntaxError JSON.parse throws
JSONParse(t) ==
    IF JSONWellFormed(t)
    THEN [ok |-> TRUE, value |-> [k \in JSONKeys(t) |-> JSONValueOf(t, k)]]
    ELSE [ok |-> FALSE, value |-> <<>>]

\* obj.k, undefined when the property is absent
Field(obj, k) == IF k \in DOMAIN obj THEN obj[k] ELSE Undefined

(***************************************************************************)
(* HTTP responses the client can receive.                                  *)
(***************************************************************************)
StatusText(status) ==
    CASE status = 200 -> "OK"
      [] status = 400 -> "Bad Request"
      [] status = 429 -> "Too Many Requests"
      [] status = 500 -> "Internal Server Error"
      [] status = 503 -> "Service Unavailable"
      [] status = 504 -> "Gateway Timeout"
      [] OTHER -> ""

Response(status, body) ==
    [status |-> status, statusText |-> StatusText(status), body |-> body]

NoResponse == [status |-> 0, statusText |-> "", body |-> <<>>]

\* response.ok
ResponseOk(resp) == resp.status >= 200 /\ resp.status <= 299

\* bodies of the server's error responses, and a proxy's HTML error page
BodyErrorField(text) == <<"{", "error", ":", text, "}">>
BodyNoErrorField == <<"{", "status", ":", "error", "}">>
BodyNotJson == <<"<html>", "Bad Gateway", "</html>">>
BodyHealthOk == <<"{", "status", ":", "ok", "}">>
BodyBuild == <<"{", "items", ":", "[x]", ",", "runes", ":", "{}", "}">>
BodyEnvelope == <<"{", "success", ":", "true", ",", "data", ":", "{items:[x]}", "}">>

\* 200 bodies whose team analysis has enemy threats and no ally strengths,
\* in the English and in the French vocabulary
BodyThreats ==
    <<"{", "items", ":", "[x]", ",", "team_analysis", ":",
      "{enemy_threats:[x]}", "}">>
BodyEnvelopeThreats ==
    <<"{", "success", ":", "true", ",", "data", ":",
      "{analyse_equipe:{menaces_ennemies:[x]}}", "}">>

ErrorBodies ==
    { BodyErrorField("Missing required data"),
      BodyErrorField("Request timed out. Please try again."),
      BodyNoErrorField,
      BodyNotJson }

ErrorStatuses == {400, 504}

OkResponses ==
    { Response(200, BodyHealthOk), Response(200, BodyBuild),
      Response(200, BodyEnvelope), Response(200, BodyThreats),
      Response(200, BodyEnvelopeThreats) }

ErrorResponses == { Response(s, b) : s \in ErrorStatuses, b \in ErrorBodies }

(***************************************************************************)
(* Errors: the name, the message (a sequence of its parts) and, as history,*)
(* the fetch attempt that raised it.                                       *)
(***************************************************************************)
Err(name, message, attempt) ==
    [name |-> name, message |-> message, attempt |-> attempt]

NoError == Err("none", <<>>, 0)

\* what fetch rejects with on a network failure, and on controller.abort()
NetworkError(k) == Err("TypeError", <<"Failed to fetch">>, k)
AbortError(k) == Err("AbortError", <<"The user aborted a request.">>, k)

\* 'La requete a pris trop de temps. Veuillez reessayer.' (accents dropped)
TimedOutMessage == <<"La requete a pris trop de temps. Veuillez reessayer.">>

(***************************************************************************)
(* The variants of fetchWithRetry found in the source.                     *)
(*   plain    openaiApi.ts 12-40 (and 823-851, part_008 53-81)             *)
(*   short    openaiApi.ts 339-365: the message has no reason phrase       *)
(*   abort30  openaiApi.ts 542-585: AbortController, 30 s                  *)
(*   abort90  types.ts 551-596: AbortController, 90 s, French messages     *)
(***************************************************************************)
Variants == {"plain", "short", "abort30", "abort90"}

HasTimeout(v) == v \in {"abort30", "abort90"}

\* `API error: ${response.status} ${response.statusText}` and its variants
GenericMessage(v, resp) ==
    CASE v = "short" -> <<"API error:", resp.status>>
      [] v = "abort90" -> <<"Erreur API:", resp.status, resp.statusText>>
      [] OTHER -> <<"API error:", resp.status, resp.statusText>>

\* try { const errorData = JSON.parse(errorText);
\*       throw new Error(errorData.error || generic) }
\* the error the inner try block raises: the SyntaxError of JSON.parse, or
\* the Error built from the body's error field
InnerTryError(v, resp, k) ==
    LET parsed == JSONParse(resp.body)
    IN  IF parsed.ok
        THEN Err("Error",
                 LET e == Field(parsed.value, "error")
                 IN  IF Truthy(e) THEN <<e>> ELSE GenericMessage(v, resp),
                 k)
        ELSE Err("SyntaxError", <<"Unexpected token">>, k)

\* catch (e) { throw new Error(generic) }: the inner catch receives whatever
\* the inner try raised, the Error carrying the body's error field included,
\* and replaces it
InnerCatchError(v, resp, e) == Err("Error", GenericMessage(v, resp), e.attempt)

\* the error a non-2xx response reaches the outer catch with
ResponseError(v, resp, k) == InnerCatchError(v, resp, InnerTryError(v, resp, k))

\* mutant: the catch block without its AbortError test
IsAbortErrorNever(v, e) == FALSE

\* if (error.name === 'AbortError'): only the AbortController variants test it
IsAbortError(v, e) == HasTimeout(v) /\ e.name = "AbortError"

\* mutant: a timeout reported like any network failure
TimedOutErrorAsNetwork(k) == NetworkError(k)

\* throw new Error(<the timed-out message>)
TimedOutError(k) == Err("Error", TimedOutMessage, k)

\* mutant: off by one, one attempt too many
RetriesExhaustedLate(r) == r <= 0

\* if (retries <= 1) throw
RetriesExhausted(r) == r <= 1

\* what is thrown once the retries are exhausted: the caught error itself,
\* or (types.ts) a new Error with its message
Rethrow(v, e) == IF v = "abort90" THEN Err("Error", e.message, e.attempt) ELSE e

\* mutant: the backoff is passed on without doubling
NextBackoffFlat(b) == b

\* fetchWithRetry(url, options, retries - 1, backoff * 2)
NextRetries(r) == r - 1
NextBackoff(b) == b * 2

(***************************************************************************)
(* generateBuildRecommendation: its variants and their messages.           *)
(*   first  openaiApi.ts 100-331: health probe in a try/catch, then the    *)
(*          POST with fetchWithRetry(..., 2, 500); items and runes go      *)
(*          through transformItemsData / transformRunesData                *)
(*   probe  openaiApi.ts 853-1001: as first, items and runes passed on     *)
(*   multi  openaiApi.ts 443-530: health probe, then the POST              *)
(*   api    openaiApi.ts 629-811: no probe, AbortController helper,        *)
(*          expects an ApiResponse envelope {success, data}                *)
(*   types  types.ts 681-863: no probe, 90 s helper, expects {data}        *)
(***************************************************************************)
GenVariants == {"first", "probe", "multi", "api", "types"}

\* the fetchWithRetry each variant of generateBuildRecommendation sits beside
HelperOf(g) ==
    CASE g \in {"first", "probe"} -> "plain"
      [] g = "multi" -> "short"
      [] g = "api" -> "abort30"
      [] g = "types" -> "abort90"

\* whether the variant probes GET /health before the POST
HasProbe(g) == g \in {"first", "probe", "multi"}

French(g) == g \in {"api", "types"}

MsgSelectChampion(g) ==
    IF French(g) THEN <<"Veuillez d'abord selectionner votre champion">>
    ELSE <<"Please select your champion first">>

MsgAddChampions(g) ==
    IF French(g) THEN <<"Veuillez ajouter des champions aux deux equipes">>
    ELSE <<"Please add champions to both teams">>

MsgUnavailable == <<"Build recommendation service is unavailable">>

MsgBuildFailed(g) ==
    IF g = "api" THEN <<"Erreur lors de la generation du build">>
    ELSE <<"Reponse invalide du serveur">>

NoMessage == <<>>

\* mutant: only the player champion is validated
ValidationErrorChampionOnly(g, champion, al, en) ==
    IF ~Truthy(champion) THEN MsgSelectChampion(g) ELSE NoMessage

\* if (!playerChampion) throw ...; if (!allies?.length || !enemies?.length) throw ...
\* the message of the validation error, NoMessage when the arguments pass
ValidationError(g, champion, al, en) ==
    IF ~Truthy(champion) THEN MsgSelectChampion(g)
    ELSE IF Len(al) = 0 \/ Len(en) = 0 THEN MsgAddChampions(g)
    ELSE NoMessage

(***************************************************************************)
(* JSON values inside a body are tokens: "[]" and "[x]" are an empty and a *)
(* non-empty array, "{}" and "{x}" an empty and a non-empty object;        *)
(* "{items:[x]}" is an object whose items is "[x]".                        *)
(***************************************************************************)
IsArray(v) == v \in {"[]", "[x]"}

\* the properties of the nested object tokens
ObjectFields ==
    ("{items:[x]}" :> [items |-> "[x]"]) @@
    ("{enemy_threats:[x]}" :> [enemy_threats |-> "[x]"]) @@
    ("{analyse_equipe:{menaces_ennemies:[x]}}" :>
        [analyse_equipe |-> "{menaces_ennemies:[x]}"]) @@
    ("{menaces_ennemies:[x]}" :> [menaces_ennemies |-> "[x]"])

\* v.k for a nested object token v (v?.k: undefined when v is undefined)
NestedField(v, k) ==
    IF v \in DOMAIN ObjectFields /\ k \in DOMAIN ObjectFields[v]
    THEN ObjectFields[v][k]
    ELSE Undefined

\* v?.k1?.k2...
RECURSIVE Path(_, _)
Path(v, ks) ==
    IF ks = <<>> THEN v ELSE Path(NestedField(v, Head(ks)), Tail(ks))

\* v?.map(f) || []  --  undefined gives [], an array maps to an array of the
\* same length, anything else has no map method: "TypeError" marks the throw
MapOrEmpty(v) ==
    IF v = Undefined THEN "[]" ELSE IF IsArray(v) THEN v ELSE "TypeError"

\* transformItemsData(data.items || [])
TransformItemsData(v) == IF IsArray(v) THEN v ELSE "[]"

\* transformRunesData(data.runes || {}): the list built from primary and
\* secondary, empty when the object has neither
TransformRunesData(v) == IF v = "{x}" THEN "[x]" ELSE "[]"

(***************************************************************************)
(* The explanation text.  It is the sequence of the array's elements that  *)
(* filter(Boolean) keeps (join('\n') then puts them on lines).  Emoji and   *)
(* accents of the headings are left out, the bullet is written "* ".       *)
(***************************************************************************)
\* v?.length > 0
NonEmpty(v) == v = "[x]"

\* v?.map(s => bullet + s).join('\n'): undefined for no list, '' for []
JoinMap(v, bullet) ==
    IF v = "[x]" THEN bullet \o "x" ELSE IF v = "[]" THEN "" ELSE Undefined

\* ...(v?.map(s => bullet + s) || [])
SpreadMap(v, bullet) == IF v = "[x]" THEN <<bullet \o "x">> ELSE <<>>

\* cond ? text : ''
When(cond, text) == IF cond THEN text ELSE ""

\* array.filter(Boolean)
FilterBoolean(a) == SelectSeq(a, Truthy)

\* strategyText of the first variant: every heading is an element of its own
ExplanationFirst(data) ==
    LET ta == Field(data, "team_analysis")
        st == Field(data, "strategy")
        bo == Field(data, "build_order")
    IN  FilterBoolean(
          << "Team Analysis:\n",
             "Allied Team Strengths:",
             JoinMap(Path(ta, <<"ally_strengths">>), "- "),
             "\nEnemy Threats:",
             JoinMap(Path(ta, <<"enemy_threats">>), "- "),
             "\nDamage Distribution:",
             "- Allied Team: " \o Path(ta, <<"damage_distribution", "allied">>),
             "- Enemy Team: " \o Path(ta, <<"damage_distribution", "enemy">>),
             "\n\nEarly Game:\n",
             Path(st, <<"early_game", "approach">>),
             "\nTrading Pattern:",
             Path(st, <<"early_game", "trading_pattern">>),
             "\nPower Spikes:",
             JoinMap(Path(st, <<"early_game", "power_spikes">>), "- "),
             "\nObjectives:",
             JoinMap(Path(st, <<"early_game", "objectives">>), "- "),
             "\n\nMid Game:\n",
             Path(st, <<"mid_game", "approach">>),
             "\nTeam Role:",
             Path(st, <<"mid_game", "role_in_team">>),
             "\nPower Spikes:",
             JoinMap(Path(st, <<"mid_game", "power_spikes">>), "- "),
             "\nObjectives:",
             JoinMap(Path(st, <<"mid_game", "objectives">>), "- "),
             "\n\nLate Game:\n",
             Path(st, <<"late_game", "approach">>),
             "\nTeam Fighting:",
             Path(st, <<"late_game", "team_fighting">>),
             "\nWin Condition:",
             Path(st, <<"late_game", "win_condition">>),
             "\n\nBuild Path:\n",
             "Starting Items:",
             Path(bo, <<"starting_items", "explanation">>),
             "\nFirst Back:",
             "Target Gold: " \o Path(bo, <<"first_back", "ideal_gold">>),
             Path(bo, <<"first_back", "explanation">>),
             "\nIf Ahead:",
             Path(bo, <<"first_back", "variations", "ahead">>),
             "\nIf Behind:",
             Path(bo, <<"first_back", "variations", "behind">>),
             "\nIf Even:",
             Path(bo, <<"first_back", "variations", "even">>),
             "\nCore Build Order:",
             Path(bo, <<"core_items", "reasoning">>),
             JoinMap(Path(bo, <<"core_items", "sequence">>), ""),
             "\nSituational Items:",
             JoinMap(Path(bo, <<"situational_items">>), "\n- ") >>)

\* strategyText of the probe variant: the list headings depend on the lists
ExplanationProbe(data) ==
    LET ta == Field(data, "team_analysis")
        st == Field(data, "strategy")
        allied == Path(ta, <<"damage_distribution", "allied">>)
        enemy == Path(ta, <<"damage_distribution", "enemy">>)
        trading == Path(st, <<"early_game", "trading_pattern">>)
        role == Path(st, <<"mid_game", "role_in_team">>)
        win == Path(st, <<"late_game", "win_condition">>)
    IN  FilterBoolean(
          << "Team Analysis:",
             When(NonEmpty(Path(ta, <<"ally_strengths">>)),
                  "Allied Strengths:") >>
          \o SpreadMap(Path(ta, <<"ally_strengths">>), "* ")
          \o << When(NonEmpty(Path(ta, <<"enemy_threats">>)),
                     "\nEnemy Threats:") >>
          \o SpreadMap(Path(ta, <<"enemy_threats">>), "* ")
          \o << "\nDamage Profile:",
                When(Truthy(allied), "* Allied Team: " \o allied),
                When(Truthy(enemy), "* Enemy Team: " \o enemy),
                "\nEarly Game:",
                OrElse(Path(st, <<"early_game", "approach">>), ""),
                When(Truthy(trading), "\nTrading Pattern: " \o trading),
                When(NonEmpty(Path(st, <<"early_game", "power_spikes">>)),
                     "\nPower Spikes:") >>
          \o SpreadMap(Path(st, <<"early_game", "power_spikes">>), "* ")
          \o << "\nMid Game:",
                OrElse(Path(st, <<"mid_game", "approach">>), ""),
                When(Truthy(role), "\nTeam Role: " \o role),
                "\nLate Game:",
                OrElse(Path(st, <<"late_game", "approach">>), ""),
                When(Truthy(win), "\nWin Condition: " \o win) >>)

\* explanation of the multi-language variant: it reads data.analysis and has
\* no heading for the lists
ExplanationMulti(data) ==
    LET an == Field(data, "analysis")
        st == Field(data, "strategy")
    IN  FilterBoolean(
          << "Team Analysis:",
             JoinMap(Path(an, <<"allies">>), "* "),
             JoinMap(Path(an, <<"enemies">>), "* "),
             "\nEarly Game:",
             OrElse(Path(st, <<"early">>), ""),
             "\nMid Game:",
             OrElse(Path(st, <<"mid">>), ""),
             "\nLate Game:",
             OrElse(Path(st, <<"late">>), "") >>)

\* explanation of the ApiResponse variants: French fields inside data.data,
\* every heading an element of its own
ExplanationApi(data) ==
    LET ae == NestedField(Field(data, "data"), "analyse_equipe")
        sg == NestedField(Field(data, "data"), "strategie")
        trade == Path(sg, <<"debut_partie", "pattern_trade">>)
        role == Path(sg, <<"milieu_partie", "role_equipe">>)
        win == Path(sg, <<"fin_partie", "condition_victoire">>)
    IN  FilterBoolean(
          << "Analyse de la composition :",
             "\nForces de l'equipe :" >>
          \o SpreadMap(Path(ae, <<"forces_allies">>), "* ")
          \o << "\nMenaces ennemies :" >>
          \o SpreadMap(Path(ae, <<"menaces_ennemies">>), "* ")
          \o << "\nProfil de degats :",
                "* Equipe alliee : "
                    \o OrElse(Path(ae, <<"profil_degats", "allies">>), ""),
                "* Equipe ennemie : "
                    \o OrElse(Path(ae, <<"profil_degats", "ennemis">>), ""),
                "\nDebut de partie :",
                OrElse(Path(sg, <<"debut_partie", "approche">>), ""),
                When(Truthy(trade), "\nPattern de trade : " \o trade),
                "\nMilieu de partie :",
                OrElse(Path(sg, <<"milieu_partie", "approche">>), ""),
                When(Truthy(role), "\nRole en equipe : " \o role),
                "\nFin de partie :",
                OrElse(Path(sg, <<"fin_partie", "approche">>), ""),
                When(Truthy(win), "\nCondition de victoire : " \o win) >>)

Explanation(g, data) ==
    CASE g = "first" -> ExplanationFirst(data)
      [] g = "probe" -> ExplanationProbe(data)
      [] g = "multi" -> ExplanationMulti(data)
      [] g \in {"api", "types"} -> ExplanationApi(data)

NoRec == [items |-> Undefined, runes |-> Undefined, explanation |-> <<>>]

\* what generateBuildRecommendation makes of the parsed 200 body `data`:
\* err is the message of the error it throws, NoMessage when it returns rec
Normalize(g, data) ==
    LET items == Field(data, "items")
        runes == Field(data, "runes")
        inner == Field(data, "data")
        ret(i, r) ==
            [err |-> NoMessage,
             rec |-> [items |-> i, runes |-> r,
                      explanation |-> Explanation(g, data)]]
        throw(m) == [err |-> m, rec |-> NoRec]
    IN  CASE g = "first" ->
               ret(TransformItemsData(items), TransformRunesData(runes))
          [] g = "probe" -> ret(OrElse(items, "[]"), OrElse(runes, "[]"))
          [] g = "multi" ->
               IF "TypeError" \in {MapOrEmpty(items), MapOrEmpty(runes)}
               THEN throw(<<"map is not a function">>)
               ELSE ret(MapOrEmpty(items), MapOrEmpty(runes))
          [] g = "api" ->
               IF ~Truthy(Field(data, "success")) \/ ~Truthy(inner)
               THEN throw(IF Truthy(Field(data, "error"))
                          THEN <<Field(data, "error")>>
                          ELSE MsgBuildFailed(g))
               ELSE ret(MapOrEmpty(OrElse(NestedField(inner, "items"), "[]")),
                        MapOrEmpty(OrElse(NestedField(inner, "runes"), "[]")))
          [] g = "types" ->
               IF ~Truthy(inner)
               THEN throw(MsgBuildFailed(g))
               ELSE ret(MapOrEmpty(OrElse(NestedField(inner, "items"), "[]")),
                        MapOrEmpty(OrElse(NestedField(inner, "runes"), "[]")))

(***************************************************************************)
(* The server (src/server.js).  Error messages are sequences of characters *)
(* so that String.prototype.includes is a search for a substring.          *)
(***************************************************************************)
\* 'timeout'
TextTimeout ==
    <<"t", "i", "m", "e", "o", "u", "t">>

\* 'rate limits'
TextRateLimits ==
    <<"r", "a", "t", "e", " ", "l", "i", "m", "i", "t", "s">>

\* 'rate limit'
TextRateLimit ==
    <<"r", "a", "t", "e", " ", "l", "i", "m", "i", "t">>

\* 'OpenAI API request timed out'
MsgTimedOut ==
    <<"O", "p", "e", "n", "A", "I", " ", "A", "P", "I", " ", "r", "e", "q",
      "u", "e", "s", "t", " ", "t", "i", "m", "e", "d", " ", "o", "u", "t">>

\* 'OpenAI API not initialized'
MsgNotInitialized ==
    <<"O", "p", "e", "n", "A", "I", " ", "A", "P", "I", " ", "n", "o", "t",
      " ", "i", "n", "i", "t", "i", "a", "l", "i", "z", "e", "d">>

\* 'No response from OpenAI API'
MsgNoResponse ==
    <<"N", "o", " ", "r", "e", "s", "p", "o", "n", "s", "e", " ", "f", "r",
      "o", "m", " ", "O", "p", "e", "n", "A", "I", " ", "A", "P", "I">>

\* 'Invalid response format from OpenAI'
MsgInvalidFormat ==
    <<"I", "n", "v", "a", "l", "i", "d", " ", "r", "e", "s", "p", "o", "n",
      "s", "e", " ", "f", "o", "r", "m", "a", "t", " ", "f", "r", "o", "m",
      " ", "O", "p", "e", "n", "A", "I">>

\* 'Connection error.'
MsgConnection ==
    <<"C", "o", "n", "n", "e", "c", "t", "i", "o", "n", " ", "e", "r", "r",
      "o", "r", ".">>

\* 'network timeout at: api'
MsgNetworkTimeout ==
    <<"n", "e", "t", "w", "o", "r", "k", " ", "t", "i", "m", "e", "o", "u",
      "t", " ", "a", "t", ":", " ", "a", "p", "i">>

\* '429 Rate limit reached'
MsgRateLimit429 ==
    <<"4", "2", "9", " ", "R", "a", "t", "e", " ", "l", "i", "m", "i", "t",
      " ", "r", "e", "a", "c", "h", "e", "d">>

\* 'rate limit exceeded'
MsgRateLimit ==
    <<"r", "a", "t", "e", " ", "l", "i", "m", "i", "t", " ", "e", "x", "c",
      "e", "e", "d", "e", "d">>

\* 'exceeded rate limits'
MsgRateLimits ==
    <<"e", "x", "c", "e", "e", "d", "e", "d", " ", "r", "a", "t", "e", " ",
      "l", "i", "m", "i", "t", "s">>

\* 'timeout, rate limits'
MsgTimeoutRateLimits ==
    <<"t", "i", "m", "e", "o", "u", "t", ",", " ", "r", "a", "t", "e", " ",
      "l", "i", "m", "i", "t", "s">>

\* s.includes(sub)
Includes(s, sub) ==
    \E i \in 1..(Len(s) - Len(sub) + 1) : SubSeq(s, i, i + Len(sub) - 1) = sub

\* an error as the handler's catch block sees it: message and status
\* (status 0: the error has no status property)
SErr(message, status) == [message |-> message, status |-> status]

NoSErr == SErr(<<>>, 0)

\* what pTimeout rejects with after 60 s
TimeoutError == SErr(MsgTimedOut, 0)

\* what openai.chat.completions.create can reject with
UpstreamErrors ==
    { SErr(MsgConnection, 0),
      SErr(MsgNetworkTimeout, 0),
      SErr(MsgRateLimit429, 429),
      SErr(MsgRateLimit, 0),
      SErr(MsgRateLimits, 0),
      SErr(MsgTimeoutRateLimits, 0) }

\* the message content of a completion: JSON with or without the fields,
\* text that is not JSON, or nothing
ContentA == <<"{", "items", ":", "[x]", ",", "runes", ":", "{x}", "}">>
ContentB == <<"{", "items", ":", "[x]", ",", "strategy", ":", "{x}", "}">>
ContentNotJson == <<"Here", "is", "your", "build">>
ContentNone == <<>>

Contents == {ContentA, ContentB, ContentNotJson, ContentNone}

\* the request bodies the clients send; `omitted` names the rosters the JSON
\* does not have at all (their value is then undefined, shown as <<>>)
Body(champion, role, al, en, prompt, language) ==
    [playerChampion |-> champion, playerRole |-> role, allies |-> al,
     enemies |-> en, prompt |-> prompt, language |-> language,
     omitted |-> {}]

\* the body without its roster f
Omit(body, f) == [body EXCEPT ![f] = <<>>, !.omitted = @ \cup {f}]

\* roster?.length, as a truth value
HasLength(body, f) == f \notin body.omitted /\ Len(body[f]) # 0

NoBody == Body(Undefined, Undefined, <<>>, <<>>, "", "")

RequestBodies ==
    { Body("Ahri", "mid", <<"Ahri", "Lux">>, <<"Zed">>, "prompt-en", "en"),
      Body("Ahri", "mid", <<"Ahri", "Lux">>, <<"Zed">>, "prompt-fr", "fr"),
      Body("Ahri", "mid", <<"Ahri", "Lux">>, <<"Yasuo">>, "prompt-en", "en"),
      Body(Undefined, "mid", <<"Ahri">>, <<"Zed">>, "prompt-en", "en"),
      Body(Undefined, "mid", <<"Ahri">>, <<>>, "prompt-en", "en"),
      Omit(Body("Ahri", "mid", <<>>, <<"Zed">>, "prompt-en", "en"),
           "allies") }

\* the characters of the identities and roles the requests use: what a
\* template literal or join() makes of the value
IdText ==
    ("Ahri" :> <<"A", "h", "r", "i">>) @@
    ("Lux" :> <<"L", "u", "x">>) @@
    ("Zed" :> <<"Z", "e", "d">>) @@
    ("Yasuo" :> <<"Y", "a", "s", "u", "o">>) @@
    ("Ahri_Lux" :> <<"A", "h", "r", "i", "_", "L", "u", "x">>) @@
    ("mid" :> <<"m", "i", "d">>) @@
    ("top" :> <<"t", "o", "p">>) @@
    ("undefined" :> <<"u", "n", "d", "e", "f", "i", "n", "e", "d">>)

Chars(v) == IdText[v]

\* mutant: only the first identity is joined
JoinFirstOnly(ids) ==
    IF Len(ids) = 0 THEN <<>> ELSE Chars(ids[1])

\* ids.join('_'), as a string (the sequence of its characters)
RECURSIVE Join(_)
Join(ids) ==
    IF Len(ids) = 0 THEN <<>>
    ELSE IF Len(ids) = 1 THEN Chars(ids[1])
    ELSE Chars(ids[1]) \o <<"_">> \o Join(Tail(ids))

\* mutant: a key that also tells the languages apart
CacheKeyWithLanguage(body) ==
    <<"b", "u", "i", "l", "d", "_">> \o Chars(body.playerChampion)
        \o <<"_">> \o Chars(body.playerRole)
        \o <<"_">> \o Join(body.allies) \o <<"_">> \o Join(body.enemies)
        \o <<"_">> \o <<body.language>>

\* `build_${playerChampion.id}_${playerRole}_${allies.map(c => c.id).join('_')}
\*  _${enemies.map(c => c.id).join('_')}`, as a string
CacheKey(body) ==
    <<"b", "u", "i", "l", "d", "_">> \o Chars(body.playerChampion)
        \o <<"_">> \o Chars(body.playerRole)
        \o <<"_">> \o Join(body.allies) \o <<"_">> \o Join(body.enemies)

\* the details map of the 400 reply
DetailFields == {"allies", "enemies", "playerChampion"}

NoDetails == [f \in DetailFields |-> Undefined]

MissingDetails(body) ==
    [f \in DetailFields |->
        CASE f = "allies" ->
               IF ~HasLength(body, "allies") THEN "Missing allies"
               ELSE Undefined
          [] f = "enemies" ->
               IF ~HasLength(body, "enemies") THEN "Missing enemies"
               ELSE Undefined
          [] f = "playerChampion" ->
               IF ~Truthy(body.playerChampion) THEN "Missing player champion"
               ELSE Undefined]

\* the keys of the details map once res.json has serialised it:
\* JSON.stringify leaves out the properties whose value is undefined
DetailKeys(details) == { f \in DetailFields : details[f] # Undefined }

\* mutant: the allies are not looked at
MissingDataNoAllies(body) ==
    ~HasLength(body, "enemies") \/ ~Truthy(body.playerChampion)

\* if (!allies?.length || !enemies?.length || !playerChampion)
MissingData(body) ==
    \/ ~HasLength(body, "allies")
    \/ ~HasLength(body, "enemies")
    \/ ~Truthy(body.playerChampion)

NoPayload ==
    [items |-> Undefined, runes |-> Undefined, strategy |-> Undefined,
     team_analysis |-> Undefined, build_order |-> Undefined,
     forChampion |-> Undefined, forRole |-> Undefined]

\* const recommendation = { items: parsedResponse.items || [], ... }
Recommendation(parsed, body) ==
    [items |-> OrElse(Field(parsed, "items"), "[]"),
     runes |-> OrElse(Field(parsed, "runes"), "{}"),
     strategy |-> OrElse(Field(parsed, "strategy"), "{}"),
     team_analysis |-> OrElse(Field(parsed, "team_analysis"), "{}"),
     build_order |-> OrElse(Field(parsed, "build_order"), "{}"),
     forChampion |-> body.playerChampion,
     forRole |-> body.playerRole]

\* a reply: the status, the body's error text, its details and, for a 200,
\* the recommendation
Reply(status, error, details, fields, payload) ==
    [status |-> status, error |-> error, details |-> details,
     fields |-> fields, payload |-> payload]

NoReply == Reply(0, "", <<>>, NoDetails, NoPayload)

OkReply(payload) == Reply(200, "", <<>>, NoDetails, payload)

\* mutant: the rate-limit test made before the timeout test
ErrorStatusRateFirst(e) ==
    IF Includes(e.message, TextRateLimits) THEN 429
    ELSE IF Includes(e.message, TextTimeout) THEN 504
    ELSE IF e.status # 0 THEN e.status ELSE 500

\* the status the catch block answers error e with
\*   if (error.message.includes('timeout')) 504
\*   if (error.message.includes('rate limits')) 429
\*   res.status(error.status || 500)
ErrorStatus(e) ==
    IF Includes(e.message, TextTimeout) THEN 504
    ELSE IF Includes(e.message, TextRateLimits) THEN 429
    ELSE IF e.status # 0 THEN e.status ELSE 500

ErrorText(status, e) ==
    IF Includes(e.message, TextTimeout)
    THEN "Request timed out. Please try again."
    ELSE IF Includes(e.message, TextRateLimits)
    THEN "Too many requests. Please try again later."
    ELSE "Failed to generate build recommendation"

\* the reply of the catch block; details: isDev ? error.message : undefined
ErrorReply(e, dev) ==
    Reply(ErrorStatus(e), ErrorText(ErrorStatus(e), e),
          IF dev THEN e.message ELSE <<>>, NoDetails, NoPayload)

\* what GET /api/health answers: res.status(code).json({ status, message })
HealthAnswer(code, status, message) ==
    [code |-> code, status |-> status, message |-> message]

\* no health request was answered yet
NoHealth == HealthAnswer(0, "", "")

\* mutant: the handler answers ok whatever the initialisation
HealthReplyAlwaysOk(client, key) == HealthAnswer(200, "ok", "")

\* app.get('/api/health'): 503 unless the client exists and the key is set
HealthReply(client, key) ==
    IF ~client
    THEN HealthAnswer(503, "error", "OpenAI API not initialized")
    ELSE IF ~key
    THEN HealthAnswer(503, "error", "OpenAI API key not configured")
    ELSE HealthAnswer(200, "ok", "")

\* mutant: one retry more
MaxAttemptsOneMore == ServerRetries + 2

\* attempts pRetry makes at most: the first and `retries` more
MaxAttempts == ServerRetries + 1

\* the delay before the retry that follows failed attempt k:
\* Math.min(minTimeout * 2^(k-1), maxTimeout)
RetryDelay(k) ==
    LET d == MinTimeout * (IF k = 1 THEN 1 ELSE IF k = 2 THEN 2 ELSE 4)
    IN  IF d > MaxTimeout THEN MaxTimeout ELSE d

(***************************************************************************)
(* State.                                                                  *)
(***************************************************************************)
VARIABLES
    variant,     \* the fetchWithRetry variant that runs
    url,         \* its url argument
    retries0,    \* the retries argument of the outermost call
    backoff0,    \* the backoff argument of the outermost call
    retries,     \* the retries argument of the current (recursive) call
    backoff,     \* the backoff argument of the current (recursive) call
    fpc,         \* idle | inflight | backoff | returned | thrown
    attempts,    \* fetch calls issued so far by this call of the helper
    outcomes,    \* history: per attempt, ok | fail | timeout
    waits,       \* history: the setTimeout delays awaited between attempts
    received,    \* the response the last attempt resolved with, if it did
    raised,      \* the error the outer catch caught last
    thrownErr,   \* the error thrown to the caller
    result,      \* the response returned to the caller
    timerArmed,  \* the abort timer (timeoutId) is pending
    aborted,     \* controller.abort() calls so far
    httpLog,     \* history: the url of every fetch issued
    gvariant,    \* the generateBuildRecommendation variant that runs
    playerChampion, \* its arguments
    allies,
    enemies,
    gpc,         \* none | entered | health | post | done
    gresult,     \* none | returned | thrown
    gerror,      \* the message of the error generateBuildRecommendation threw
    grec,        \* the recommendation it returned
    openaiReady, \* server: the OpenAI client was constructed (API key set)
    apiKey,      \* server: process.env.OPENAI_API_KEY is set
    health,      \* server: the last answer of GET /api/health
    isDev,       \* server: NODE_ENV is not production
    now,         \* server: Date.now(), in seconds
    cache,       \* server: the NodeCache, key -> [value, expires]
    lastWriter,  \* history: key -> the request that last did cache.set
    reqs,        \* server: the POST /api/build-recommendation requests
    bodyA,       \* key comparison: one request body
    bodyB,       \* key comparison: another request body
    cacheKeyA,   \* key comparison: cacheKey of the one
    cacheKeyB,   \* key comparison: cacheKey of the other
    kpc,         \* key comparison: none | start | done
    team,        \* App: allies, enemies, playerChampion, playerRole
    recommendation, \* App: the recommendation shown, or none
    isLoading,   \* App: a Generate action is under way
    error,       \* App: the error shown, or none
    pending,     \* App: the generateBuildRecommendation calls not settled
    clock        \* App: Date.now()

helperVars == <<variant, url, retries0, backoff0, retries, backoff, fpc,
                attempts, outcomes, waits, received, raised, thrownErr,
                result, timerArmed, aborted, httpLog>>

genVars == <<gvariant, playerChampion, allies, enemies, gpc, gresult, gerror,
             grec>>

serverVars == <<openaiReady, apiKey, health, isDev, now, cache, lastWriter,
                reqs>>

keyVars == <<bodyA, bodyB, cacheKeyA, cacheKeyB, kpc>>

appVars == <<team, recommendation, isLoading, error, pending, clock>>

vars == <<helperVars, genVars, serverVars, keyVars, appVars>>

UrlHealth == "GET /health"
UrlBuild == "POST /build-recommendation"

(***************************************************************************)
(* fetchWithRetry.                                                         *)
(***************************************************************************)
\* no call of the helper has been made
HelperIdle ==
    /\ variant = "plain"
    /\ url = UrlHealth
    /\ retries0 = 0
    /\ backoff0 = 0
    /\ retries = 0
    /\ backoff = 0
    /\ fpc = "idle"
    /\ attempts = 0
    /\ outcomes = <<>>
    /\ waits = <<>>
    /\ received = NoResponse
    /\ raised = NoError
    /\ thrownErr = NoError
    /\ result = NoResponse
    /\ timerArmed = FALSE
    /\ aborted = 0
    /\ httpLog = <<>>

\* fetchWithRetry(u, options, r, b) of variant v is called: it issues its
\* first fetch at once
\*   const timeoutId = setTimeout(() => controller.abort(), timeout);
\*   const response = await fetch(url, fetchOptions)
StartHelper(v, u, r, b) ==
    /\ variant' = v
    /\ url' = u
    /\ retries0' = r
    /\ backoff0' = b
    /\ retries' = r
    /\ backoff' = b
    /\ fpc' = "inflight"
    /\ attempts' = 1
    /\ outcomes' = <<>>
    /\ waits' = <<>>
    /\ received' = NoResponse
    /\ raised' = NoError
    /\ thrownErr' = NoError
    /\ result' = NoResponse
    /\ timerArmed' = HasTimeout(v)
    /\ aborted' = 0
    /\ httpLog' = Append(httpLog, u)

\* the outer catch block, entered with error e of an attempt of class c
Caught(e, c) ==
    /\ timerArmed' = FALSE
    /\ raised' = e
    /\ outcomes' = Append(outcomes, c)
    /\ IF IsAbortError(variant, e)
       THEN /\ thrownErr' = TimedOutError(e.attempt)
            /\ fpc' = "thrown"
       ELSE IF RetriesExhausted(retries)
            THEN /\ thrownErr' = Rethrow(variant, e)
                 /\ fpc' = "thrown"
            ELSE /\ thrownErr' = thrownErr
                 /\ fpc' = "backoff"
    /\ UNCHANGED <<variant, url, retries0, backoff0, retries, backoff,
                   attempts, waits, result, httpLog>>

\* fetch resolves with a response
FetchResolves(resp) ==
    /\ fpc = "inflight"
    /\ received' = resp
    /\ aborted' = aborted
    /\ IF ResponseOk(resp)
       THEN /\ timerArmed' = FALSE
            /\ result' = resp
            /\ outcomes' = Append(outcomes, "ok")
            /\ fpc' = "returned"
            /\ UNCHANGED <<variant, url, retries0, backoff0, retries, backoff,
                           attempts, waits, raised, thrownErr, httpLog>>
       ELSE Caught(ResponseError(variant, resp, attempts), "fail")
    /\ UNCHANGED <<genVars, serverVars, keyVars, appVars>>

\* fetch rejects: the network failed
FetchRejects ==
    /\ fpc = "inflight"
    /\ received' = NoResponse
    /\ aborted' = aborted
    /\ Caught(NetworkError(attempts), "fail")
    /\ UNCHANGED <<genVars, serverVars, keyVars, appVars>>

\* the abort timer fires while the fetch is pending: controller.abort()
\* makes fetch reject with an AbortError
TimerFires ==
    /\ fpc = "inflight"
    /\ timerArmed
    /\ aborted' = aborted + 1
    /\ received' = NoResponse
    /\ Caught(AbortError(attempts), "timeout")
    /\ UNCHANGED <<genVars, serverVars, keyVars, appVars>>

\* await new Promise(resolve => setTimeout(resolve, backoff));
\* return fetchWithRetry(url, options, retries - 1, backoff * 2)
\* the recursive call issues the next fetch, with a timer of its own
BackoffElapses ==
    /\ fpc = "backoff"
    /\ waits' = Append(waits, backoff)
    /\ retries' = NextRetries(retries)
    /\ backoff' = NextBackoff(backoff)
    /\ attempts' = attempts + 1
    /\ timerArmed' = HasTimeout(variant)
    /\ httpLog' = Append(httpLog, url)
    /\ fpc' = "inflight"
    /\ UNCHANGED <<variant, url, retries0, backoff0, outcomes, received,
                   raised, thrownErr, result, aborted>>
    /\ UNCHANGED <<genVars, serverVars, keyVars, appVars>>

FetchNext ==
    \/ \E resp \in OkResponses \cup ErrorResponses : FetchResolves(resp)
    \/ FetchRejects
    \/ TimerFires
    \/ BackoffElapses

(***************************************************************************)
(* SpecRetry: fetchWithRetry alone, called once with any arguments.        *)
(***************************************************************************)
GenNone ==
    /\ gvariant = "first"
    /\ playerChampion = Undefined
    /\ allies = <<>>
    /\ enemies = <<>>
    /\ gpc = "none"
    /\ gresult = "none"
    /\ gerror = NoMessage
    /\ grec = NoRec

\* the server is not part of the run
ServerNone ==
    /\ openaiReady = TRUE
    /\ apiKey = TRUE
    /\ health = NoHealth
    /\ isDev = TRUE
    /\ now = 0
    /\ cache = <<>>
    /\ lastWriter = <<>>
    /\ reqs = <<>>

\* no cache key is being compared
KeyNone ==
    /\ bodyA = NoBody
    /\ bodyB = NoBody
    /\ cacheKeyA = <<>>
    /\ cacheKeyB = <<>>
    /\ kpc = "none"

\* a champion: { id, name, role }
Champ(id, name, role) == [id |-> id, name |-> name, role |-> role]

\* team.playerChampion is undefined
NoChampion == Champ(<<>>, "", Undefined)

\* useState<Team>({ allies: [], enemies: [] })
EmptyTeam ==
    [allies |-> <<>>, enemies |-> <<>>, playerChampion |-> NoChampion,
     playerRole |-> Undefined]

\* recommendation is null; `late` is history: whether it was set by a
\* request that had been started before the last resetAll
NoRecommendation == [forChampion |-> "", late |-> FALSE]

\* error is null; `late` as above
NoAppError == [message |-> "", late |-> FALSE]

\* the App is not part of the run
AppNone ==
    /\ team = EmptyTeam
    /\ recommendation = NoRecommendation
    /\ isLoading = FALSE
    /\ error = NoAppError
    /\ pending = <<>>
    /\ clock = 0

InitRetry == HelperIdle /\ GenNone /\ ServerNone /\ KeyNone /\ AppNone

\* a caller invokes the helper
FetchCall(v, u, r, b) ==
    /\ fpc = "idle"
    /\ StartHelper(v, u, r, b)
    /\ UNCHANGED <<genVars, serverVars, keyVars, appVars>>

NextRetry ==
    \/ \E v \in Variants, u \in {UrlHealth, UrlBuild},
          r \in 1..MaxRetries, b \in {DefaultBackoff, PostBackoff} :
            FetchCall(v, u, r, b)
    \/ FetchNext

SpecRetry == InitRetry /\ [][NextRetry]_vars

(***************************************************************************)
(* SpecClient: one call of generateBuildRecommendation.                    *)
(***************************************************************************)
\* a roster of n champions
Roster(n) == [i \in 1..n |-> IF i = 1 THEN "Ahri" ELSE "Lux"]

InitClient ==
    /\ HelperIdle
    /\ ServerNone
    /\ KeyNone
    /\ AppNone
    /\ gvariant \in GenVariants
    /\ playerChampion \in {Undefined, "Ahri"}
    /\ allies \in { Roster(n) : n \in 0..MaxRoster }
    /\ enemies \in { Roster(n) : n \in 0..MaxRoster }
    /\ gpc = "entered"
    /\ gresult = "none"
    /\ gerror = NoMessage
    /\ grec = NoRec

\* generateBuildRecommendation throws an error with message m
GenThrow(m) ==
    /\ gpc' = "done"
    /\ gresult' = "thrown"
    /\ gerror' = m
    /\ grec' = NoRec
    /\ UNCHANGED <<gvariant, playerChampion, allies, enemies>>

\* await fetchWithRetry(apiUrl('/build-recommendation'), {method: 'POST', ...})
\* the first variants post with (2, 500), the others with the defaults
GenPost ==
    /\ IF gvariant \in {"first", "probe"}
       THEN StartHelper(HelperOf(gvariant), UrlBuild, PostRetries, PostBackoff)
       ELSE StartHelper(HelperOf(gvariant), UrlBuild, DefaultRetries,
                        DefaultBackoff)
    /\ gpc' = "post"
    /\ UNCHANGED <<gvariant, playerChampion, allies, enemies, gresult,
                   gerror, grec>>

\* the call: the validation, then the first request
GenCall ==
    /\ gpc = "entered"
    /\ UNCHANGED <<serverVars, keyVars, appVars>>
    /\ LET m == ValidationError(gvariant, playerChampion, allies, enemies)
       IN  IF m # NoMessage
           THEN GenThrow(m) /\ UNCHANGED helperVars
           ELSE IF HasProbe(gvariant)
                THEN /\ StartHelper(HelperOf(gvariant), UrlHealth,
                                    DefaultRetries, DefaultBackoff)
                     /\ gpc' = "health"
                     /\ UNCHANGED <<gvariant, playerChampion, allies, enemies,
                                    gresult, gerror, grec>>
                ELSE GenPost

\* the health probe's fetchWithRetry has ended
\*   first, probe: a thrown error is caught and logged, healthCheckPassed
\*                 stays false and the call fails as unavailable
\*   multi:        a thrown error propagates
GenHealthDone ==
    /\ gpc = "health"
    /\ UNCHANGED <<serverVars, keyVars, appVars>>
    /\ fpc \in {"returned", "thrown"}
    /\ IF fpc = "returned" /\ ResponseOk(result)
       THEN GenPost
       ELSE /\ IF gvariant = "multi" /\ fpc = "thrown"
               THEN GenThrow(thrownErr.message)
               ELSE GenThrow(MsgUnavailable)
            /\ UNCHANGED helperVars

\* the POST's fetchWithRetry has ended: a thrown error propagates, a
\* response is parsed (response.json()) and normalised
GenPostDone ==
    /\ gpc = "post"
    /\ UNCHANGED <<serverVars, keyVars, appVars>>
    /\ fpc \in {"returned", "thrown"}
    /\ UNCHANGED helperVars
    /\ IF fpc = "thrown"
       THEN GenThrow(thrownErr.message)
       ELSE LET parsed == JSONParse(result.body)
            IN  IF ~parsed.ok
                THEN GenThrow(<<"Unexpected token">>)
                ELSE LET n == Normalize(gvariant, parsed.value)
                     IN  IF n.err # NoMessage
                         THEN GenThrow(n.err)
                         ELSE /\ gpc' = "done"
                              /\ gresult' = "returned"
                              /\ grec' = n.rec
                              /\ UNCHANGED <<gvariant, playerChampion, allies,
                                             enemies, gerror>>

NextClient ==
    \/ GenCall
    \/ GenHealthDone
    \/ GenPostDone
    \/ FetchNext

SpecClient == InitClient /\ [][NextClient]_vars

(***************************************************************************)
(* SpecServer: the server's POST /api/build-recommendation handler, run    *)
(* by up to MaxReq requests that interleave at their awaits.               *)
(***************************************************************************)
Reqs == 1..MaxReq

\* a request nobody has sent yet
\*   pc          idle | inflight | backoff | done
\*   attempt     completion calls (attempts of pRetry) started so far
\*   allTimedOut pTimeout gave up on every attempt so far
\*   stale       given-up calls that are still pending upstream (followed
\*               until the request is answered)
\*   waited      the delays pRetry waited between attempts
\*   thrown      the error the catch block received
\*   reply       what was answered
\*   hit         the reply came from the cache
\*   seenWriter  history: the request whose result was the last one stored
\*               for this request's matchup when it arrived (0: none)
\*   seenFresh   history: that result was stored at most StdTTL before
\*   content     history: the content of the completion it got
IdleReq ==
    [pc |-> "idle", body |-> NoBody, attempt |-> 0, allTimedOut |-> TRUE,
     stale |-> 0, waited |-> <<>>, thrown |-> NoSErr, reply |-> NoReply,
     hit |-> FALSE, seenWriter |-> 0, seenFresh |-> FALSE,
     content |-> <<>>]

InitServer ==
    /\ HelperIdle
    /\ GenNone
    /\ KeyNone
    /\ AppNone
    /\ openaiReady \in BOOLEAN
    /\ apiKey = openaiReady
    /\ health = NoHealth
    /\ isDev \in BOOLEAN
    /\ now = 0
    /\ cache = <<>>
    /\ lastWriter = <<>>
    /\ reqs = [r \in Reqs |-> IdleReq]

\* what the spec identifies a request by: champion, role and both rosters
Matchup(body) ==
    <<body.playerChampion, body.playerRole, body.allies, body.enemies>>

\* node-cache: an entry is expired once its time is behind the clock
Expired(entry, t) == entry.expires < t

\* cache.get(key): the stored value, or a miss; an expired entry is deleted
CacheGet(c, key, t) ==
    IF key \in DOMAIN c /\ ~Expired(c[key], t)
    THEN [hit |-> TRUE, value |-> c[key].value, cache |-> c]
    ELSE [hit |-> FALSE, value |-> NoPayload,
          cache |-> [k \in DOMAIN c \ {key} |-> c[k]]]

\* mutant: an entry that exists is kept
CacheSetIfAbsent(c, key, value, t) ==
    [k \in DOMAIN c \cup {key} |->
        IF k = key /\ k \notin DOMAIN c
        THEN [value |-> value, expires |-> t + StdTTL] ELSE c[k]]

\* cache.set(key, value): stored with the standard TTL
CacheSet(c, key, value, t) ==
    [k \in DOMAIN c \cup {key} |->
        IF k = key THEN [value |-> value, expires |-> t + StdTTL] ELSE c[k]]

\* request r is answered with `reply`; e is the error that led to it
Respond(r, req, reply, e) ==
    reqs' = [reqs EXCEPT ![r] =
                [req EXCEPT !.pc = "done", !.reply = reply, !.thrown = e,
                            !.stale = 0]]

\* the request arrives: validation, the client check, the cache lookup and,
\* on a miss, the first completion call
Receive(r, body) ==
    /\ reqs[r].pc = "idle"
    /\ \A q \in 1..(r - 1) : reqs[q].pc # "idle"
    /\ LET key == CacheKey(body)
           m == Matchup(body)
           req == [reqs[r] EXCEPT
                     !.body = body,
                     !.seenWriter = IF m \in DOMAIN lastWriter
                                    THEN lastWriter[m].req ELSE 0,
                     !.seenFresh = /\ m \in DOMAIN lastWriter
                                   /\ now <= lastWriter[m].at + StdTTL]
           got == CacheGet(cache, key, now)
       IN  IF MissingData(body)
           THEN /\ Respond(r, req,
                           Reply(400, "Missing required data", <<>>,
                                 MissingDetails(body), NoPayload),
                           NoSErr)
                /\ cache' = cache
           ELSE IF ~openaiReady
           THEN /\ Respond(r, req,
                           ErrorReply(SErr(MsgNotInitialized, 0), isDev),
                           SErr(MsgNotInitialized, 0))
                /\ cache' = cache
           ELSE IF got.hit
           THEN /\ Respond(r, [req EXCEPT !.hit = TRUE], OkReply(got.value),
                           NoSErr)
                /\ cache' = got.cache
           ELSE /\ reqs' = [reqs EXCEPT ![r] =
                              [req EXCEPT !.pc = "inflight", !.attempt = 1]]
                /\ cache' = got.cache
    /\ UNCHANGED <<openaiReady, apiKey, health, isDev, now, lastWriter>>
    /\ UNCHANGED <<helperVars, genVars, keyVars, appVars>>

\* the pending completion call returns a completion with this content
CompletionResolves(r, content) ==
    /\ reqs[r].pc = "inflight"
    /\ LET req == [reqs[r] EXCEPT !.allTimedOut = FALSE, !.content = content]
           key == CacheKey(req.body)
           parsed == JSONParse(content)
       IN  IF content = ContentNone
           THEN /\ Respond(r, req, ErrorReply(SErr(MsgNoResponse, 0), isDev),
                           SErr(MsgNoResponse, 0))
                /\ UNCHANGED <<cache, lastWriter>>
           ELSE IF ~parsed.ok
           THEN /\ Respond(r, req,
                           ErrorReply(SErr(MsgInvalidFormat, 0), isDev),
                           SErr(MsgInvalidFormat, 0))
                /\ UNCHANGED <<cache, lastWriter>>
           ELSE LET rec == Recommendation(parsed.value, req.body)
                IN  /\ cache' = CacheSet(cache, key, rec, now)
                    /\ lastWriter' =
                          [m \in DOMAIN lastWriter \cup {Matchup(req.body)} |->
                              IF m = Matchup(req.body)
                              THEN [req |-> r, at |-> now]
                              ELSE lastWriter[m]]
                    /\ Respond(r, req, OkReply(rec), NoSErr)
    /\ UNCHANGED <<openaiReady, apiKey, health, isDev, now>>
    /\ UNCHANGED <<helperVars, genVars, keyVars, appVars>>

\* pRetry after a failed attempt (req already counts it): another attempt
\* after a delay while retries are left, else the error reaches the catch
FailedAttempt(r, req, e) ==
    IF req.attempt >= MaxAttempts
    THEN Respond(r, req, ErrorReply(e, isDev), e)
    ELSE reqs' = [reqs EXCEPT ![r] = [req EXCEPT !.pc = "backoff"]]

\* the pending completion call rejects
CompletionRejects(r, e) ==
    /\ reqs[r].pc = "inflight"
    /\ FailedAttempt(r, [reqs[r] EXCEPT !.allTimedOut = FALSE], e)
    /\ UNCHANGED <<openaiReady, apiKey, health, isDev, now, cache, lastWriter>>
    /\ UNCHANGED <<helperVars, genVars, keyVars, appVars>>

\* 60 s pass: pTimeout rejects with its TimeoutError; the completion call
\* itself is not cancelled and stays pending
TimeoutFires(r) ==
    /\ reqs[r].pc = "inflight"
    /\ FailedAttempt(r,
                     [reqs[r] EXCEPT !.stale = @ + 1],
                     TimeoutError)
    /\ UNCHANGED <<openaiReady, apiKey, health, isDev, now, cache, lastWriter>>
    /\ UNCHANGED <<helperVars, genVars, keyVars, appVars>>

\* the retry delay has passed: pRetry starts the next attempt
RetryElapses(r) ==
    /\ reqs[r].pc = "backoff"
    /\ reqs' = [reqs EXCEPT ![r] =
                  [@ EXCEPT !.pc = "inflight",
                            !.waited = Append(@, RetryDelay(reqs[r].attempt)),
                            !.attempt = @ + 1]]
    /\ UNCHANGED <<openaiReady, apiKey, health, isDev, now, cache, lastWriter>>
    /\ UNCHANGED <<helperVars, genVars, keyVars, appVars>>

\* a completion call pTimeout gave up on settles at last; nobody listens
StaleSettles(r) ==
    /\ reqs[r].stale > 0
    /\ reqs' = [reqs EXCEPT ![r] = [@ EXCEPT !.stale = @ - 1]]
    /\ UNCHANGED <<openaiReady, apiKey, health, isDev, now, cache, lastWriter>>
    /\ UNCHANGED <<helperVars, genVars, keyVars, appVars>>

\* time passes, a TTL at a time
Tick ==
    /\ now < MaxTicks * StdTTL
    /\ now' = now + StdTTL
    /\ UNCHANGED <<openaiReady, apiKey, health, isDev, cache, lastWriter, reqs>>
    /\ UNCHANGED <<helperVars, genVars, keyVars, appVars>>

\* the cache's periodic check (checkperiod) deletes the expired entries
Sweep ==
    /\ \E k \in DOMAIN cache : Expired(cache[k], now)
    /\ cache' = [k \in { j \in DOMAIN cache : ~Expired(cache[j], now) } |->
                    cache[k]]
    /\ UNCHANGED <<openaiReady, apiKey, health, isDev, now, lastWriter, reqs>>
    /\ UNCHANGED <<helperVars, genVars, keyVars, appVars>>

NextServer ==
    \/ \E r \in Reqs, body \in RequestBodies : Receive(r, body)
    \/ \E r \in Reqs, content \in Contents : CompletionResolves(r, content)
    \/ \E r \in Reqs, e \in UpstreamErrors : CompletionRejects(r, e)
    \/ \E r \in Reqs : TimeoutFires(r)
    \/ \E r \in Reqs : RetryElapses(r)
    \/ \E r \in Reqs : StaleSettles(r)
    \/ Tick
    \/ Sweep

SpecServer == InitServer /\ [][NextServer]_vars

\* the timers of pTimeout and pRetry fire: a pending attempt is given up
\* after 60 s unless it settled, a retry starts once its delay has passed
ServerFairness ==
    \A r \in Reqs : WF_vars(TimeoutFires(r)) /\ WF_vars(RetryElapses(r))

\* a development server whose OpenAI client was constructed
InitServerLive == InitServer /\ openaiReady /\ isDev

SpecServerLive == InitServerLive /\ [][NextServer]_vars /\ ServerFairness

(***************************************************************************)
(* SpecHealth: GET /api/health next to the build-recommendation requests.  *)
(***************************************************************************)
\* module initialisation: the client is constructed only if the key is set,
\* and the catch block leaves it undefined when the constructor throws
InitHealth ==
    /\ HelperIdle
    /\ GenNone
    /\ KeyNone
    /\ AppNone
    /\ openaiReady \in BOOLEAN
    /\ apiKey \in BOOLEAN
    /\ openaiReady => apiKey
    /\ health = NoHealth
    /\ isDev = TRUE
    /\ now = 0
    /\ cache = <<>>
    /\ lastWriter = <<>>
    /\ reqs = [r \in Reqs |-> IdleReq]

\* app.get('/api/health', (req, res) => ...): a synchronous handler
Health ==
    /\ health' = HealthReply(openaiReady, apiKey)
    /\ UNCHANGED <<openaiReady, apiKey, isDev, now, cache, lastWriter, reqs>>
    /\ UNCHANGED <<helperVars, genVars, keyVars, appVars>>

NextHealth ==
    \/ Health
    \/ NextServer

SpecHealth == InitHealth /\ [][NextHealth]_vars

(***************************************************************************)
(* SpecEndToEnd: one generateBuildRecommendation call of the client whose  *)
(* POST requests are answered by the server's handler.  The k-th fetch of  *)
(* the POST is request k of the server.                                    *)
(***************************************************************************)
\* JSON.stringify of what the handler passed to res.json, as tokens
ReplyText(reply) ==
    IF reply.status = 200
    THEN <<"{", "items", ":", reply.payload.items, ",",
           "runes", ":", reply.payload.runes, ",",
           "strategy", ":", reply.payload.strategy, ",",
           "team_analysis", ":", reply.payload.team_analysis, ",",
           "build_order", ":", reply.payload.build_order, ",",
           "forChampion", ":", reply.payload.forChampion, ",",
           "forRole", ":", reply.payload.forRole, "}">>
    ELSE IF reply.status = 400
    THEN <<"{", "error", ":", reply.error, ",", "details", ":", "{x}", "}">>
    ELSE IF reply.details # <<>>
    THEN <<"{", "error", ":", reply.error, ",", "details", ":", "message",
           "}">>
    ELSE <<"{", "error", ":", reply.error, "}">>

\* the HTTP response the client's fetch gets for a reply
ReplyResponse(reply) == Response(reply.status, ReplyText(reply))

\* body: JSON.stringify({ allies, enemies, playerChampion, playerRole,
\*                        prompt, language })
ClientBody ==
    Body(playerChampion, "mid", allies, enemies,
         IF French(gvariant) THEN "prompt-fr" ELSE "prompt-en",
         IF French(gvariant) THEN "fr" ELSE "en")

\* what GET /health answers: ok, or 503 when the OpenAI client is missing
HealthResponses ==
    { Response(200, BodyHealthOk), Response(503, BodyNoErrorField) }

InitEndToEnd ==
    /\ HelperIdle
    /\ KeyNone
    /\ AppNone
    /\ gvariant \in GenVariants
    /\ playerChampion = "Ahri"
    /\ allies = Roster(MaxRoster)
    /\ enemies = Roster(1)
    /\ gpc = "entered"
    /\ gresult = "none"
    /\ gerror = NoMessage
    /\ grec = NoRec
    /\ openaiReady = TRUE
    /\ apiKey = TRUE
    /\ health = NoHealth
    /\ isDev = TRUE
    /\ now = 0
    /\ cache = <<>>
    /\ lastWriter = <<>>
    /\ reqs = [r \in Reqs |-> IdleReq]

\* the probe's fetch is answered
HealthResponds(resp) ==
    /\ url = UrlHealth
    /\ FetchResolves(resp)

\* the pending fetch of the POST reaches the server
PostArrives ==
    /\ fpc = "inflight"
    /\ url = UrlBuild
    /\ attempts \in Reqs
    /\ Receive(attempts, ClientBody)

\* the server's answer to the pending fetch of the POST reaches the client
PostResponds ==
    /\ url = UrlBuild
    /\ attempts \in Reqs
    /\ reqs[attempts].pc = "done"
    /\ FetchResolves(ReplyResponse(reqs[attempts].reply))

NextEndToEnd ==
    \/ GenCall
    \/ GenHealthDone
    \/ GenPostDone
    \/ \E resp \in HealthResponses : HealthResponds(resp)
    \/ PostArrives
    \/ PostResponds
    \/ FetchRejects
    \/ TimerFires
    \/ BackoffElapses
    \/ \E r \in Reqs, content \in Contents : CompletionResolves(r, content)
    \/ \E r \in Reqs, e \in UpstreamErrors : CompletionRejects(r, e)
    \/ \E r \in Reqs : TimeoutFires(r)
    \/ \E r \in Reqs : RetryElapses(r)
    \/ \E r \in Reqs : StaleSettles(r)

SpecEndToEnd == InitEndToEnd /\ [][NextEndToEnd]_vars

(***************************************************************************)
(* SpecKey: the handler's cacheKey expression, computed for two request    *)
(* bodies that passed the validation.                                      *)
(***************************************************************************)
KeyIds == {"Ahri", "Lux", "Ahri_Lux"}

\* the rosters of 1 to MaxRoster champions
KeyRosters == UNION { [1..n -> KeyIds] : n \in 1..MaxRoster }

KeyBodies ==
    { Body(c, role, al, en, "prompt-en", "en") :
        c \in {"Ahri", "Lux"}, role \in {"mid", "top"},
        al \in KeyRosters, en \in KeyRosters }

InitKey ==
    /\ HelperIdle
    /\ GenNone
    /\ ServerNone
    /\ AppNone
    /\ bodyA \in KeyBodies
    /\ bodyB \in KeyBodies
    /\ cacheKeyA = <<>>
    /\ cacheKeyB = <<>>
    /\ kpc = "start"

\* const cacheKey = `build_...`, for both bodies
ComputeKeys ==
    /\ kpc = "start"
    /\ cacheKeyA' = CacheKey(bodyA)
    /\ cacheKeyB' = CacheKey(bodyB)
    /\ kpc' = "done"
    /\ UNCHANGED <<bodyA, bodyB>>
    /\ UNCHANGED <<helperVars, genVars, serverVars, appVars>>

NextKey == ComputeKeys

SpecKey == InitKey /\ [][NextKey]_vars

(***************************************************************************)
(* The App component (src/src/App.tsx) with the champion lists of          *)
(* ChampionSelect (src/src/components/ChampionHoverCard.tsx).  Every       *)
(* action is one event handler together with the render that follows it:   *)
(* React flushes the state updates of a click before the next event is     *)
(* dispatched, so a handler reads the state its predecessor left.  The     *)
(* tutorial state (showTutorial, tutorialStep) takes no part in what is    *)
(* checked here and is left out.                                           *)
(***************************************************************************)
\* const roles: Role[] = ['top', 'jungle', 'mid', 'adc', 'support'], two of them
Roles == {"top", "mid"}

\* CHAMPION_ROLES[champion.name] || []: Mel is not in the table
SuggestedRoles ==
    ("Ahri" :> <<"mid">>) @@ ("Zed" :> <<"mid">>) @@ ("Mel" :> <<>>)

\* the champions getChampions() loaded
ChampionNames == DOMAIN SuggestedRoles

\* `ally-${champion.id}-${Date.now()}`
UniqueId(side, champion, t) == <<side, champion.name, t>>

\* the ids of a list of champions
Ids(list) == { list[i].id : i \in DOMAIN list }

\* the first element of list with the given id, as Array.prototype.find
Find(list, championId) ==
    IF championId \in Ids(list)
    THEN list[CHOOSE i \in DOMAIN list :
                /\ list[i].id = championId
                /\ \A j \in 1..(i - 1) : list[j].id # championId]
    ELSE NoChampion

\* list.map(champion => champion.id === championId ? {...champion, role} : champion)
WithRole(list, championId, role) ==
    [i \in DOMAIN list |->
        IF list[i].id = championId THEN [list[i] EXCEPT !.role = role]
        ELSE list[i]]

\* list.filter((c) => c.id !== championId)
Without(list, championId) ==
    LET Keep(c) == c.id # championId IN SelectSeq(list, Keep)

\* mutant: no limit on the size of the team
HandleAllySelectUnbounded(champion, isPlayer) ==
    /\ LET newChampion ==
               [champion EXCEPT !.id = UniqueId("ally", champion, clock)]
           newTeam == [team EXCEPT !.allies = Append(@, newChampion)]
       IN  team' = IF isPlayer
                   THEN [newTeam EXCEPT !.playerChampion = newChampion]
                   ELSE newTeam
    /\ clock' = clock + 1
    /\ UNCHANGED <<recommendation, isLoading, error, pending>>
    /\ UNCHANGED <<helperVars, genVars, serverVars, keyVars>>

\* handleAllySelect(champion, isPlayer = false)
HandleAllySelect(champion, isPlayer) ==
    /\ IF Len(team.allies) < TeamLimit
       THEN LET newChampion ==
                    [champion EXCEPT !.id = UniqueId("ally", champion, clock)]
                newTeam == [team EXCEPT !.allies = Append(@, newChampion)]
            IN  team' = IF isPlayer
                        THEN [newTeam EXCEPT !.playerChampion = newChampion]
                        ELSE newTeam
       ELSE team' = team
    /\ clock' = clock + 1
    /\ UNCHANGED <<recommendation, isLoading, error, pending>>
    /\ UNCHANGED <<helperVars, genVars, serverVars, keyVars>>

\* handleEnemySelect(champion)
HandleEnemySelect(champion) ==
    /\ IF Len(team.enemies) < TeamLimit
       THEN team' = [team EXCEPT !.enemies =
                        Append(@, [champion EXCEPT
                                     !.id = UniqueId("enemy", champion, clock)])]
       ELSE team' = team
    /\ clock' = clock + 1
    /\ UNCHANGED <<recommendation, isLoading, error, pending>>
    /\ UNCHANGED <<helperVars, genVars, serverVars, keyVars>>

\* mutant: the player champion is kept when its ally is removed
HandleAllyRemoveKeepsPlayer(championId) ==
    /\ team' = [team EXCEPT !.allies = Without(@, championId)]
    /\ UNCHANGED <<recommendation, isLoading, error, pending, clock>>
    /\ UNCHANGED <<helperVars, genVars, serverVars, keyVars>>

\* handleAllyRemove(championId)
HandleAllyRemove(championId) ==
    /\ team' = [team EXCEPT
                  !.allies = Without(@, championId),
                  !.playerChampion =
                      IF team.playerChampion.id = championId
                      THEN NoChampion ELSE @]
    /\ UNCHANGED <<recommendation, isLoading, error, pending, clock>>
    /\ UNCHANGED <<helperVars, genVars, serverVars, keyVars>>

\* handleEnemyRemove(championId)
HandleEnemyRemove(championId) ==
    /\ team' = [team EXCEPT !.enemies = Without(@, championId)]
    /\ UNCHANGED <<recommendation, isLoading, error, pending, clock>>
    /\ UNCHANGED <<helperVars, genVars, serverVars, keyVars>>

\* handleAllyRoleChange(championId, role)
HandleAllyRoleChange(championId, role) ==
    /\ LET isPlayerChampion == team.playerChampion.id = championId
       IN  team' = [team EXCEPT
                      !.allies = WithRole(@, championId, role),
                      !.playerRole = IF isPlayerChampion THEN role ELSE @,
                      !.playerChampion =
                          IF isPlayerChampion THEN [@ EXCEPT !.role = role]
                          ELSE @]
    /\ UNCHANGED <<recommendation, isLoading, error, pending, clock>>
    /\ UNCHANGED <<helperVars, genVars, serverVars, keyVars>>

\* handleEnemyRoleChange(championId, role)
HandleEnemyRoleChange(championId, role) ==
    /\ team' = [team EXCEPT !.enemies = WithRole(@, championId, role)]
    /\ UNCHANGED <<recommendation, isLoading, error, pending, clock>>
    /\ UNCHANGED <<helperVars, genVars, serverVars, keyVars>>

\* mutant: the champion is looked up in both teams
SetPlayerChampionAnyTeam(championId) ==
    /\ LET champion == Find(team.allies \o team.enemies, championId)
       IN  team' = IF champion = NoChampion THEN team
                   ELSE [team EXCEPT !.playerChampion = champion,
                                     !.playerRole = champion.role]
    /\ UNCHANGED <<recommendation, isLoading, error, pending, clock>>
    /\ UNCHANGED <<helperVars, genVars, serverVars, keyVars>>

\* setPlayerChampion(championId)
SetPlayerChampion(championId) ==
    /\ LET champion == Find(team.allies, championId)
       IN  team' = IF champion = NoChampion THEN team
                   ELSE [team EXCEPT !.playerChampion = champion,
                                     !.playerRole = champion.role]
    /\ UNCHANGED <<recommendation, isLoading, error, pending, clock>>
    /\ UNCHANGED <<helperVars, genVars, serverVars, keyVars>>

\* mutant: the button stays enabled while a request is outstanding
GenerateDisabledIgnoresLoading ==
    \/ team.playerChampion = NoChampion
    \/ ~Truthy(team.playerRole)
    \/ Len(team.allies) = 0
    \/ Len(team.enemies) = 0

\* disabled={!team.playerChampion || !team.playerRole || ... || isLoading}
GenerateDisabled ==
    \/ team.playerChampion = NoChampion
    \/ ~Truthy(team.playerRole)
    \/ Len(team.allies) = 0
    \/ Len(team.enemies) = 0
    \/ isLoading

\* the message generateRecommendation throws before it calls the service
MissingSelection ==
    IF team.playerChampion = NoChampion THEN "errors.missingChampion"
    ELSE IF ~Truthy(team.playerRole) THEN "errors.missingRole"
    ELSE IF Len(team.allies) = 0 \/ Len(team.enemies) = 0
    THEN "errors.missingTeams"
    ELSE ""

\* a click on the Generate button: generateRecommendation up to its await
GenerateRecommendation ==
    /\ ~GenerateDisabled
    /\ IF MissingSelection # ""
       THEN /\ error' = [message |-> MissingSelection, late |-> FALSE]
            /\ isLoading' = FALSE
            /\ pending' = pending
       ELSE /\ error' = NoAppError
            /\ isLoading' = TRUE
            /\ pending' = Append(pending,
                                 [champion |-> team.playerChampion.name,
                                  beforeReset |-> FALSE])
    /\ UNCHANGED <<team, recommendation, clock>>
    /\ UNCHANGED <<helperVars, genVars, serverVars, keyVars>>

\* generateBuildRecommendation settles: generateRecommendation goes on after
\* its await, with the result or into the catch block, then the finally block
GenerateSettles(i, outcome) ==
    /\ i \in DOMAIN pending
    /\ IF outcome = "returned"
       THEN /\ recommendation' = [forChampion |-> pending[i].champion,
                                  late |-> pending[i].beforeReset]
            /\ error' = error
       ELSE /\ error' = [message |-> "err.message",
                         late |-> pending[i].beforeReset]
            /\ recommendation' = recommendation
    /\ isLoading' = FALSE
    /\ pending' = SubSeq(pending, 1, i - 1)
                    \o SubSeq(pending, i + 1, Len(pending))
    /\ UNCHANGED <<team, clock>>
    /\ UNCHANGED <<helperVars, genVars, serverVars, keyVars>>

\* resetAll; the requests outstanding are from before the reset now
ResetAll ==
    /\ team' = EmptyTeam
    /\ recommendation' = NoRecommendation
    /\ error' = NoAppError
    /\ pending' = [i \in DOMAIN pending |->
                      [pending[i] EXCEPT !.beforeReset = TRUE]]
    /\ UNCHANGED <<isLoading, clock>>
    /\ UNCHANGED <<helperVars, genVars, serverVars, keyVars>>

\* the champions of a side: selectedChampions of its ChampionSelect
Selected(side) == IF side = "ally" THEN team.allies ELSE team.enemies

\* isRoleTaken(role, championId)
IsRoleTaken(selected, role, championId) ==
    \E i \in DOMAIN selected :
        selected[i].role = role /\ selected[i].id # championId

\* the filter of the champion lists: not selected on either side, by name
Listed(name) ==
    \A i \in DOMAIN (team.allies \o team.enemies) :
        (team.allies \o team.enemies)[i].name # name

\* onChampionSelect of a side: handleAllySelect or handleEnemySelect
OnChampionSelect(side, champion, isPlayer) ==
    IF side = "ally" THEN HandleAllySelect(champion, isPlayer)
    ELSE HandleEnemySelect(champion)

\* handleChampionSelect(champion): a click in a list that is shown
HandleChampionSelect(side, name) ==
    /\ Len(Selected(side)) < TeamLimit
    /\ Listed(name)
    /\ LET roleToUse == IF Len(SuggestedRoles[name]) > 0
                        THEN SuggestedRoles[name][1] ELSE Undefined
       IN  OnChampionSelect(side, Champ(<<>>, name, roleToUse), FALSE)

\* quickSelectWithRole(champion, role)
QuickSelectWithRole(side, name, role) ==
    /\ Len(Selected(side)) < TeamLimit
    /\ Listed(name)
    /\ OnChampionSelect(side, Champ(<<>>, name, role), TRUE)

\* the role buttons of a selected champion:
\* onClick={() => !roleTaken && onRoleChange(champion.id, role)}
RoleButton(side, championId, role) ==
    /\ championId \in Ids(Selected(side))
    /\ ~IsRoleTaken(Selected(side), role, championId)
    /\ IF side = "ally" THEN HandleAllyRoleChange(championId, role)
       ELSE HandleEnemyRoleChange(championId, role)

Sides == {"ally", "enemy"}

InitApp ==
    /\ HelperIdle
    /\ GenNone
    /\ ServerNone
    /\ KeyNone
    /\ AppNone

NextApp ==
    \/ /\ clock < MaxPicks
       /\ \E side \in Sides, name \in ChampionNames :
              HandleChampionSelect(side, name)
    \/ /\ clock < MaxPicks
       /\ \E side \in Sides, name \in ChampionNames, role \in Roles :
              QuickSelectWithRole(side, name, role)
    \/ \E championId \in Ids(team.allies) : HandleAllyRemove(championId)
    \/ \E championId \in Ids(team.enemies) : HandleEnemyRemove(championId)
    \/ \E side \in Sides, championId \in Ids(team.allies \o team.enemies),
          role \in Roles : RoleButton(side, championId, role)
    \/ \E championId \in Ids(team.allies \o team.enemies) :
          SetPlayerChampion(championId)
    \/ GenerateRecommendation
    \/ \E i \in DOMAIN pending, outcome \in {"returned", "thrown"} :
          GenerateSettles(i, outcome)
    \/ ResetAll

SpecApp == InitApp /\ [][NextApp]_vars

(***************************************************************************)
(* SpecTeam: the team handlers of App called with any champion, often      *)
(* enough to fill a team.                                                  *)
(***************************************************************************)
NextTeam ==
    \/ /\ clock < MaxTeamPicks
       /\ \E isPlayer \in BOOLEAN :
              HandleAllySelect(Champ(<<>>, "Mel", Undefined), isPlayer)
    \/ /\ clock < MaxTeamPicks
       /\ HandleEnemySelect(Champ(<<>>, "Mel", Undefined))
    \/ \E championId \in Ids(team.allies) : HandleAllyRemove(championId)
    \/ \E championId \in Ids(team.enemies) : HandleEnemyRemove(championId)
    \/ \E championId \in Ids(team.allies) :
          HandleAllyRoleChange(championId, "mid")
    \/ \E championId \in Ids(team.enemies) :
          HandleEnemyRoleChange(championId, "mid")
    \/ \E championId \in Ids(team.allies \o team.enemies) :
          SetPlayerChampion(championId)
    \/ ResetAll

SpecTeam == InitApp /\ [][NextTeam]_vars

(***************************************************************************)
(* Claims about fetchWithRetry (checked under SpecRetry).                  *)
(***************************************************************************)
RECURSIVE Pow2(_)
Pow2(n) == IF n <= 0 THEN 1 ELSE 2 * Pow2(n - 1)

Last(s) == s[Len(s)]

AllFailed == \A i \in 1..Len(outcomes) : outcomes[i] # "ok"

\* C3: called with retries = 3 and backoff = 300, when the first two
\* attempts fail (network error or non-2xx) and the third succeeds, the
\* helper returns that successful response after exactly 3 fetch attempts,
\* having waited 300 ms before the second and 600 ms before the third; after
\* two failures it has not given up.
C3_FailTwiceThenSucceed ==
    (retries0 = DefaultRetries /\ backoff0 = DefaultBackoff) =>
        /\ (outcomes = <<"fail", "fail">>) => fpc \in {"backoff", "inflight"}
        /\ (outcomes = <<"fail", "fail", "ok">>) =>
              /\ fpc = "returned"
              /\ result = received
              /\ ResponseOk(result)
              /\ thrownErr = NoError
              /\ attempts = 3
              /\ waits = <<DefaultBackoff, 2 * DefaultBackoff>>
              /\ waits[1] < waits[2]

C3_Witness ==
    /\ retries0 = DefaultRetries
    /\ backoff0 = DefaultBackoff
    /\ outcomes = <<"fail", "fail", "ok">>
    /\ fpc = "returned"

\* C4 as stated: in an AbortController variant called with retries = 3,
\* when every attempt timed out the helper has stopped after exactly 3 fetch
\* attempts with the timed-out error.
C4_Original ==
    ( /\ HasTimeout(variant)
      /\ retries0 = DefaultRetries
      /\ fpc = "thrown"
      /\ \A i \in 1..Len(outcomes) : outcomes[i] = "timeout" ) =>
        /\ attempts = 3
        /\ thrownErr.message = TimedOutMessage

\* C4 as amended: in an AbortController variant called with retries = 3,
\* when the first attempt times out the helper stops after exactly 1 fetch
\* attempt and throws the timed-out error; and it cannot hang on a pending
\* fetch, because the abort timer is armed for as long as a fetch is pending.
C4_TimeoutStopsAfterOneAttempt ==
    /\ ( /\ HasTimeout(variant)
         /\ retries0 = DefaultRetries
         /\ outcomes # <<>>
         /\ outcomes[1] = "timeout" ) =>
           /\ fpc = "thrown"
           /\ attempts = 1
           /\ outcomes = <<"timeout">>
           /\ thrownErr.message = TimedOutMessage
    /\ (HasTimeout(variant) /\ fpc = "inflight") => timerArmed

C4_Witness ==
    /\ HasTimeout(variant)
    /\ retries0 = DefaultRetries
    /\ outcomes = <<"timeout">>
    /\ fpc = "thrown"

\* C5: in an AbortController variant, an attempt that exceeds the timeout is
\* aborted and ends the helper at once with the timed-out error, whatever
\* retries remain: a timeout is always the last attempt; and the timed-out
\* message is thrown for a timeout only.
C5_TimeoutIsTerminal ==
    /\ \A i \in 1..Len(outcomes) :
          outcomes[i] = "timeout" =>
             /\ HasTimeout(variant)
             /\ i = Len(outcomes)
             /\ attempts = i
             /\ aborted = 1
             /\ ~timerArmed
             /\ fpc = "thrown"
             /\ thrownErr.name = "Error"
             /\ thrownErr.message = TimedOutMessage
    /\ (fpc = "thrown" /\ thrownErr.message = TimedOutMessage) =>
          Last(outcomes) = "timeout"

C5_Witness ==
    /\ HasTimeout(variant)
    /\ retries0 = MaxRetries
    /\ retries >= 2
    /\ outcomes = <<"fail", "timeout">>
    /\ fpc = "thrown"

\* C6: for every retries >= 1 and every sequence of outcomes, at most
\* `retries` fetches are issued, the k-th wait is backoff * 2^(k-1), a normal
\* return carries a 2xx response, and when every attempt failed the helper
\* throws the error of its last attempt (the plain variants rethrow the very
\* error caught) and returns nothing.
C6_BoundedRetriesLastErrorThrown ==
    (fpc # "idle") =>
        /\ retries0 >= 1
        /\ attempts >= 1
        /\ attempts <= retries0
        /\ Len(outcomes) <= attempts
        /\ Len(waits) = attempts - 1
        /\ \A k \in 1..Len(waits) : waits[k] = backoff0 * Pow2(k - 1)
        /\ (fpc = "returned") =>
              /\ ResponseOk(result)
              /\ Last(outcomes) = "ok"
              /\ thrownErr = NoError
        /\ (Len(outcomes) = retries0 /\ AllFailed) => fpc = "thrown"
        /\ (fpc = "thrown") =>
              /\ AllFailed
              /\ Len(outcomes) = attempts
              /\ result = NoResponse
              /\ thrownErr # NoError
              /\ raised.attempt = attempts
              /\ thrownErr.attempt = attempts
              /\ (variant \in {"plain", "short"}) => thrownErr = raised
              /\ (Last(outcomes) = "fail") =>
                    thrownErr.message = raised.message
        /\ (result # NoResponse) => fpc = "returned"

C6_Witness ==
    /\ variant = "plain"
    /\ retries0 = MaxRetries
    /\ attempts = MaxRetries
    /\ fpc = "thrown"
    /\ thrownErr = raised

\* C7: when the helper throws because its last attempt got a non-2xx
\* response, the thrown message is the body's `error` field if the body is
\* JSON carrying one, and the generic status text if the body is not JSON.
C7_ErrorFieldIsTheMessage ==
    (fpc = "thrown" /\ received # NoResponse /\ ~ResponseOk(received)) =>
        LET parsed == JSONParse(received.body)
        IN  /\ (parsed.ok /\ Truthy(Field(parsed.value, "error"))) =>
                  thrownErr.message = <<Field(parsed.value, "error")>>
            /\ (~parsed.ok) =>
                  thrownErr.message = GenericMessage(variant, received)

(***************************************************************************)
(* Claims about generateBuildRecommendation (checked under SpecClient).    *)
(***************************************************************************)
ArgsInvalid == ~Truthy(playerChampion) \/ Len(allies) = 0 \/ Len(enemies) = 0

\* C1: a call of generateBuildRecommendation with playerChampion unset, or
\* with no allies, or with no enemies, issues no HTTP request at all (no
\* GET /health, no POST /build-recommendation: fetchWithRetry is never
\* entered) and ends by throwing the validation error that names the cause.
C1_FailFastNoRequest ==
    ArgsInvalid =>
        /\ httpLog = <<>>
        /\ fpc = "idle"
        /\ attempts = 0
        /\ gpc \in {"entered", "done"}
        /\ (gpc = "done") =>
              /\ gresult = "thrown"
              /\ grec = NoRec
              /\ gerror = (IF ~Truthy(playerChampion)
                           THEN MsgSelectChampion(gvariant)
                           ELSE MsgAddChampions(gvariant))
              /\ gerror # NoMessage

C1_Witness ==
    /\ Truthy(playerChampion)
    /\ Len(allies) > 0
    /\ Len(enemies) = 0
    /\ gpc = "done"
    /\ gresult = "thrown"
    /\ httpLog = <<>>


(***************************************************************************)
(* Claims about the server's handler (SpecServer).                         *)
(***************************************************************************)
\* request r2 arrived when the result last stored for its matchup was the
\* one of r1's successful completion, stored at most StdTTL before
Sequential(r1, r2) ==
    /\ r1 # r2
    /\ reqs[r2].pc # "idle"
    /\ Matchup(reqs[r1].body) = Matchup(reqs[r2].body)
    /\ reqs[r2].seenWriter = r1
    /\ reqs[r2].seenFresh

\* the request ended in the catch block with error `thrown`
Failed(r) == reqs[r].pc = "done" /\ reqs[r].thrown # NoSErr

C8_AllTimeoutsGive504 ==
    \A r \in Reqs :
        (Failed(r) /\ reqs[r].attempt = MaxAttempts /\ reqs[r].allTimedOut)
            => reqs[r].reply.status = 504

\* C9: a request that failed with an error whose message contains "timeout"
\* is answered with status 504.
C9_TimeoutMessageGives504 ==
    \A r \in Reqs :
        (Failed(r) /\ Includes(reqs[r].thrown.message, TextTimeout))
            => reqs[r].reply.status = 504

\* a request failed with 'timeout, rate limits' and was answered 504
C9_Witness ==
    \E r \in Reqs :
        /\ Failed(r)
        /\ reqs[r].thrown.message = MsgTimeoutRateLimits
        /\ reqs[r].reply.status = 504

\* C10: a request that failed with an error whose message contains
\* "rate limit" and not "timeout" is answered with status 429.
C10_RateLimitMessageGives429 ==
    \A r \in Reqs :
        (/\ Failed(r)
         /\ Includes(reqs[r].thrown.message, TextRateLimit)
         /\ ~Includes(reqs[r].thrown.message, TextTimeout))
            => reqs[r].reply.status = 429

\* the fields C11 calls missing: a roster that is absent or empty, a player
\* champion that is absent
MissingFields(body) ==
    { f \in {"allies", "enemies"} : f \in body.omitted \/ body[f] = <<>> }
        \cup (IF body.playerChampion = Undefined THEN {"playerChampion"}
              ELSE {})

\* C11: a request whose allies or enemies are absent or empty or whose
\* playerChampion is absent is answered at once with status 400 and a details
\* map whose keys are exactly the missing fields; no completion call is made
\* for it and the step leaves the cache as it was.
C11_MissingDataIs400 ==
    [][\A r \in Reqs :
          (/\ reqs[r].pc = "idle"
           /\ reqs'[r].pc # "idle"
           /\ MissingFields(reqs'[r].body) # {})
              => /\ reqs'[r].pc = "done"
                 /\ reqs'[r].reply.status = 400
                 /\ reqs'[r].reply.error = "Missing required data"
                 /\ DetailKeys(reqs'[r].reply.fields)
                        = MissingFields(reqs'[r].body)
                 /\ reqs'[r].attempt = 0
                 /\ ~reqs'[r].hit
                 /\ cache' = cache]_vars

\* a request without enemies and without player champion was answered 400
\* naming both, and so was another one whose allies are absent
C11_Witness ==
    \E r, q \in Reqs :
        /\ reqs[r].pc = "done"
        /\ MissingFields(reqs[r].body) = {"enemies", "playerChampion"}
        /\ reqs[r].reply.status = 400
        /\ DetailKeys(reqs[r].reply.fields) = {"enemies", "playerChampion"}
        /\ reqs[q].pc = "done"
        /\ "allies" \in reqs[q].body.omitted
        /\ reqs[q].reply.status = 400

(***************************************************************************)
(* Claims about the cache key (SpecKey).                                   *)
(***************************************************************************)
\* roster t is roster s with the identity of exactly one member replaced by
\* a different one
OneReplaced(s, t) ==
    /\ Len(s) = Len(t)
    /\ \E i \in 1..Len(s) :
          /\ s[i] # t[i]
          /\ \A j \in 1..Len(s) : j # i => s[j] = t[j]

\* body B is body A with one single roster member replaced
OneMemberReplaced(a, b) ==
    /\ a.playerChampion = b.playerChampion
    /\ a.playerRole = b.playerRole
    /\ \/ OneReplaced(a.allies, b.allies) /\ a.enemies = b.enemies
       \/ a.allies = b.allies /\ OneReplaced(a.enemies, b.enemies)

\* C12: replacing the identity of one single roster member (an ally or an
\* enemy, roster sizes unchanged) by a different identity gives a different
\* cache key.
C12_OneMemberChangesKey ==
    (kpc = "done" /\ OneMemberReplaced(bodyA, bodyB))
        => cacheKeyA # cacheKeyB

\* the keys were computed for two bodies that differ in their second ally
C12_Witness ==
    /\ kpc = "done"
    /\ OneMemberReplaced(bodyA, bodyB)
    /\ Len(bodyA.allies) = 2
    /\ bodyA.allies[2] # bodyB.allies[2]
    /\ cacheKeyA # cacheKeyB

\* roster t lists the champions of roster s, possibly in another order
SameMembers(s, t) ==
    /\ Len(s) = Len(t)
    /\ \E p \in Permutations(1..Len(s)) : \A i \in 1..Len(s) : t[i] = s[p[i]]

\* C13: two requests with the same playerChampion and playerRole whose
\* rosters list the same champions in a different order get the same cache
\* key (the key is built from the sorted identities).
C13_ReorderedRostersSameKey ==
    (/\ kpc = "done"
     /\ bodyA.playerChampion = bodyB.playerChampion
     /\ bodyA.playerRole = bodyB.playerRole
     /\ SameMembers(bodyA.allies, bodyB.allies)
     /\ SameMembers(bodyA.enemies, bodyB.enemies))
        => cacheKeyA = cacheKeyB

(***************************************************************************)
(* Claims about the completion orchestrator (SpecServerLive).              *)
(***************************************************************************)
\* the request missed the cache and went to the completion API
Missed(r) == reqs[r].attempt >= 1

\* where request r stands in the orchestrator's state machine, and that its
\* terminal state is either success or failure
OrchestratorShape(r) ==
    /\ reqs[r].attempt <= 4
    /\ reqs[r].pc \in {"inflight", "backoff", "done"}
    /\ Len(reqs[r].waited) = reqs[r].attempt - 1
    /\ reqs[r].pc = "backoff" => reqs[r].attempt <= 3
    /\ reqs[r].pc = "done" =>
          \/ /\ reqs[r].reply.status = 200
             /\ reqs[r].reply.payload # NoPayload
             /\ reqs[r].thrown = NoSErr
          \/ /\ reqs[r].reply.status # 200
             /\ reqs[r].reply.payload = NoPayload
             /\ reqs[r].thrown # NoSErr

GotInvalidFormatReply ==
    /\ url = UrlBuild
    /\ attempts \in Reqs
    /\ Len(outcomes) = attempts
    /\ reqs[attempts].pc = "done"
    /\ reqs[attempts].thrown.message = MsgInvalidFormat
    /\ received = ReplyResponse(reqs[attempts].reply)

\* C15: when the completion's content is not valid JSON the failure is
\* terminal: the server made one completion call for the request and makes
\* no other, and the client's fetchWithRetry throws instead of going on to
\* send the request again.
C15_NotJsonIsTerminal ==
    GotInvalidFormatReply =>
        /\ reqs[attempts].attempt = 1
        /\ fpc = "thrown"

(***************************************************************************)
(* More claims about the server's handler (SpecServer).                    *)
(***************************************************************************)
\* the completion calls of request r that are pending upstream
CallsInFlight(r) ==
    (IF reqs[r].pc = "inflight" THEN 1 ELSE 0) + reqs[r].stale

\* C16: for one request at most one completion call is in flight at any
\* time: an attempt that exceeded the 60 s is cancelled before the next
\* attempt starts.
C16_OneCallInFlight ==
    \A r \in Reqs : CallsInFlight(r) <= 1

\* request r ended with a 200 of its own: the completion returned a content
\* that is not empty and is JSON, and r answered with recommendation p
Succeeded(r, p) ==
    /\ reqs[r].pc = "done"
    /\ ~reqs[r].hit
    /\ reqs[r].reply.status = 200
    /\ reqs[r].reply.payload = p
    /\ reqs[r].content # ContentNone
    /\ JSONWellFormed(reqs[r].content)

\* C17: the cache only holds recommendations of requests that completed
\* successfully; a request that ends in an error reply returns no
\* recommendation fields and its last step stores nothing in the cache; so a
\* valid request that arrives when nothing was ever stored for its matchup
\* goes to the completion API.
C17_AllOrNothing ==
    /\ [](\A k \in DOMAIN cache :
            \E r \in Reqs :
                CacheKey(reqs[r].body) = k /\ Succeeded(r, cache[k].value))
    /\ [](\A r \in Reqs :
            (reqs[r].pc = "done" /\ reqs[r].reply.status # 200)
                => reqs[r].reply.payload = NoPayload)
    /\ [][\A r \in Reqs :
            (/\ reqs[r].pc # "done"
             /\ reqs'[r].pc = "done"
             /\ reqs'[r].reply.status # 200)
                => \A k \in DOMAIN cache' :
                      k \in DOMAIN cache /\ cache'[k] = cache[k]]_vars
    /\ [](\A r \in Reqs :
            (/\ reqs[r].pc # "idle"
             /\ openaiReady
             /\ ~MissingData(reqs[r].body)
             /\ reqs[r].seenWriter = 0)
                => ~reqs[r].hit /\ reqs[r].attempt >= 1)

\* one request failed on a completion that was not JSON, the cache is empty
\* and another request for the same matchup is calling the completion API
C17_Witness ==
    \E r1, r2 \in Reqs :
        /\ reqs[r1].pc = "done"
        /\ reqs[r1].thrown.message = MsgInvalidFormat
        /\ reqs[r1].reply.payload = NoPayload
        /\ DOMAIN cache = {}
        /\ r2 > r1
        /\ Matchup(reqs[r2].body) = Matchup(reqs[r1].body)
        /\ reqs[r2].pc = "inflight"

\* the cache has no valid entry under the key of this body
NothingCached(body) ==
    \/ CacheKey(body) \notin DOMAIN cache
    \/ cache[CacheKey(body)].expires < now

\* C18: the server has no single-flight: a valid request that finds no valid
\* cache entry calls the completion API itself, whatever other requests for
\* the same key are in flight, and a request that succeeds stores its result
\* over whatever the cache holds under the key.
C18_NoSingleFlight ==
    /\ [][\A r \in Reqs :
            (/\ reqs[r].pc = "idle"
             /\ reqs'[r].pc # "idle"
             /\ openaiReady
             /\ ~MissingData(reqs'[r].body)
             /\ NothingCached(reqs'[r].body))
                => reqs'[r].pc = "inflight" /\ reqs'[r].attempt = 1]_vars
    /\ [][\A r \in Reqs :
            (/\ reqs[r].pc = "inflight"
             /\ reqs'[r].pc = "done"
             /\ reqs'[r].reply.status = 200)
                => /\ CacheKey(reqs[r].body) \in DOMAIN cache'
                   /\ cache'[CacheKey(reqs[r].body)].value
                         = reqs'[r].reply.payload]_vars

\* two requests with the same key both missed the cache (no time has passed,
\* so nothing expired: the second arrived before the first stored), both
\* called the completion API and got different recommendations; the cache
\* holds the one of the request that stored last
C18_Witness ==
    \E r1, r2 \in Reqs :
        /\ r1 # r2
        /\ now = 0
        /\ CacheKey(reqs[r1].body) = CacheKey(reqs[r2].body)
        /\ Succeeded(r1, reqs[r1].reply.payload)
        /\ Succeeded(r2, reqs[r2].reply.payload)
        /\ reqs[r1].reply.payload # reqs[r2].reply.payload
        /\ lastWriter[Matchup(reqs[r2].body)].req = r2
        /\ CacheKey(reqs[r2].body) \in DOMAIN cache
        /\ cache[CacheKey(reqs[r2].body)].value = reqs[r2].reply.payload

(***************************************************************************)
(* Claims about the client's normaliser (SpecClient).                      *)
(***************************************************************************)
\* the POST was answered 200 with a JSON body and the call has ended
PostAnswered ==
    /\ gpc = "done"
    /\ url = UrlBuild
    /\ fpc = "returned"
    /\ JSONParse(result.body).ok

\* C19: given a raw response that contains neither an items field nor a
\* runes field, generateBuildRecommendation returns a recommendation with
\* items = [] and runes = [] and throws no exception.
C19_MissingItemsAndRunesDefault ==
    (/\ PostAnswered
     /\ "items" \notin JSONKeys(result.body)
     /\ "runes" \notin JSONKeys(result.body))
        => /\ gresult = "returned"
           /\ grec.items = "[]"
           /\ grec.runes = "[]"

\* the raw response has enemy threats and no ally strengths: under
\* team_analysis, or with the French names inside the ApiResponse's data
ThreatsWithoutStrengths(g, data) ==
    IF French(g)
    THEN LET ae == NestedField(Field(data, "data"), "analyse_equipe")
         IN  /\ NestedField(ae, "forces_allies") = Undefined
             /\ NestedField(ae, "menaces_ennemies") = "[x]"
    ELSE LET ta == Field(data, "team_analysis")
         IN  /\ NestedField(ta, "ally_strengths") = Undefined
             /\ NestedField(ta, "enemy_threats") = "[x]"

AllyHeadings ==
    {"Allied Team Strengths:", "Allied Strengths:", "\nForces de l'equipe :"}

EnemyHeadings == {"\nEnemy Threats:", "\nMenaces ennemies :"}

Range(q) == { q[i] : i \in 1..Len(q) }

\* C20: for a raw response in which the ally strengths are absent and the
\* enemy threats are a non-empty list, the explanation contains the
\* enemy-threats heading with its entries and no ally-strengths heading.
C20_ExplanationOmitsAbsentStrengths ==
    (/\ PostAnswered
     /\ gresult = "returned"
     /\ ThreatsWithoutStrengths(gvariant, JSONParse(result.body).value))
        => /\ EnemyHeadings \cap Range(grec.explanation) # {}
           /\ {"- x", "* x"} \cap Range(grec.explanation) # {}
           /\ AllyHeadings \cap Range(grec.explanation) = {}


\* C27: the cache key is injective on the request tuple: two requests that
\* differ in playerChampion, playerRole, the ordered ally ids or the ordered
\* enemy ids never share a cache key
C27_CacheKeyInjective ==
    (kpc = "done" /\ Matchup(bodyA) # Matchup(bodyB))
        => cacheKeyA # cacheKeyB

\* C28: every 200 body of the server's POST /api/build-recommendation, its
\* own defaults for omitted fields included, is accepted by the client's
\* generateBuildRecommendation, which returns a recommendation whose items
\* and runes are arrays instead of throwing
C28_ServerBodiesAccepted ==
    (/\ gpc = "done"
     /\ url = UrlBuild
     /\ fpc = "returned"
     /\ result.status = 200)
        => /\ gresult = "returned"
           /\ IsArray(grec.items)
           /\ IsArray(grec.runes)

\* whether a POST /build-recommendation was issued
PostSent(log) == \E i \in DOMAIN log : log[i] = UrlBuild

\* C26: in the variants that probe first, the GET /health probe completes
\* before the POST is sent and the POST is sent only after the probe returned
\* a 2xx response; when the probe failed after its retries no POST is sent
\* and the call fails with the service-unavailable error
C26_ProbeGatesPost ==
    /\ [](HasProbe(gvariant) /\ gpc = "done" /\ httpLog # <<>>
            /\ ~PostSent(httpLog)
          => gresult = "thrown" /\ gerror = MsgUnavailable)
    /\ [][HasProbe(gvariant) /\ ~PostSent(httpLog) /\ PostSent(httpLog')
          => /\ gpc = "health"
             /\ fpc = "returned"
             /\ ResponseOk(result)
             /\ \A i \in DOMAIN httpLog : httpLog[i] = UrlHealth]_vars

(***************************************************************************)
(* Claims on SpecHealth.                                                   *)
(***************************************************************************)
\* the build-recommendation requests that have a completion call in flight
HealthCallsInFlight == {r \in Reqs : reqs[r].pc = "inflight"}

\* C21: GET /api/health answers 200 with status "ok" exactly when the
\* completion client was initialised and the API key is configured, 503 with
\* status "error" when either is missing, and answering it starts no
\* completion call (the requests and the cache are left as they were)
C21_HealthReflectsInitialisation ==
    /\ [](health # NoHealth =>
            IF openaiReady /\ apiKey
            THEN health.code = 200 /\ health.status = "ok"
            ELSE health.code = 503 /\ health.status = "error")
    /\ [][health' # health => reqs' = reqs /\ cache' = cache]_vars

\* the health endpoint answered ok while a completion call was in flight
C21_Witness ==
    /\ health.code = 200
    /\ HealthCallsInFlight # {}


(***************************************************************************)
(* Claims on the App component (SpecApp, SpecTeam).                        *)
(***************************************************************************)
\* C22: at most one build-recommendation pipeline is outstanding at any
\* time: while one is outstanding isLoading is true and the Generate button
\* is disabled, and isLoading is false again when the pipeline has finished,
\* whatever its outcome
C22_OneGenerateAtATime ==
    /\ [](/\ Len(pending) <= 1
          /\ pending # <<>> => isLoading /\ GenerateDisabled)
    /\ [][Len(pending') < Len(pending) => ~isLoading']_vars

\* a second pipeline is outstanding after a first one has succeeded
C22_Witness ==
    /\ Len(pending) = 1
    /\ isLoading
    /\ recommendation # NoRecommendation

\* C23: no two champions of the same team hold the same non-empty role
C23_RolesUniquePerTeam ==
    \A side \in Sides :
        \A i, j \in DOMAIN Selected(side) :
            (i # j /\ Truthy(Selected(side)[i].role))
                => Selected(side)[i].role # Selected(side)[j].role

\* C24: team.allies and team.enemies hold at most 5 champions each
C24_TeamSizeBound ==
    /\ Len(team.allies) <= 5
    /\ Len(team.enemies) <= 5

\* the allies are five although six champions were selected, none of them
\* for the enemies
C24_Witness ==
    /\ Len(team.allies) = 5
    /\ team.enemies = <<>>
    /\ clock = MaxTeamPicks

\* C25: whenever team.playerChampion is set, a champion with its id is in
\* team.allies; a step after which that ally is gone (handleAllyRemove,
\* resetAll) leaves playerChampion unset
C25_PlayerChampionIsAnAlly ==
    /\ [](team.playerChampion # NoChampion
            => team.playerChampion.id \in Ids(team.allies))
    /\ [][(/\ team.playerChampion # NoChampion
           /\ team.playerChampion.id \notin Ids(team'.allies))
          => team'.playerChampion = NoChampion]_vars

\* the player champion was removed while other allies stayed, and
\* setPlayerChampion can be called with the id of an enemy
C25_Witness ==
    /\ team.playerChampion = NoChampion
    /\ Truthy(team.playerRole)
    /\ team.allies # <<>>
    /\ team.enemies # <<>>

\* C29: the response of a build request that was started before resetAll
\* never sets recommendation or error
C29_NoResultFromBeforeReset ==
    /\ ~recommendation.late
    /\ ~error.late

\* C30: team.playerRole is the role of the player champion whenever one is
\* set, and unset whenever none is
C30_PlayerRoleIsThePlayersRole ==
    IF team.playerChampion # NoChampion
    THEN team.playerRole = team.playerChampion.role
    ELSE team.playerRole = Undefined

====
